---- MODULE Spec2Model ----
(***************************************************************************)
(* Model of typing-speed-classic: the typing session engine                *)
(* (modules/typingEngine.js), the passage selector                         *)
(* (modules/passageGenerator.js) and the passage repository                *)
(* (modules/passageStore.js).                                              *)
(*                                                                         *)
(* Strings are sequences of characters.  Each subsystem has its own        *)
(* specification (SpecEngine, SpecSelector, SpecStore); the variables of   *)
(* the other subsystems keep their initial value in it.                    *)
(***************************************************************************)
EXTENDS Integers, Sequences, FiniteSets, TLC

\* ----------------------------------------------------------------- bounds
\* longest target text; input buffers may be one character longer
MaxTextLen == 2
\* Date.now() ranges over 1..MaxTime
MaxTime == 3
\* most interval timers the host keeps scheduled at once
MaxTimers == 2
\* most passages the repository holds for difficulty beginner
MaxPassages == 3
\* most passages the repository holds for each other difficulty
MaxOtherPassages == 1
\* most getRandom calls awaiting the repository at once
MaxPending == 1
\* most passages one storePassages call writes
MaxStored == 2
\* most pieces a raw book text is put together from
MaxTokens == 2
\* the cap on the passages of a book in the runs that reach the cap: the 500
\* of processBook scaled down
MaxAccepted == 2

\* the longest text given to analyze on its own
MaxAnalyzed == 3

\* the getPassage calls of the remote passage service that are followed
MaxCalls == 2

\* the most passages a prefetch of the remote passage service brings
MaxPrefetched == 1

\* the loadNewPassage calls in flight
MaxLoads == 2

\* processBook, lines 70 and 74: the cap on the passages of a book
PassageCap == 500

\* null: startTime, endTime and updateInterval are only tested for truthiness,
\* and timestamps and timer handles are positive
Null == 0

Alphabet == {"a", "b"}

StrOfLen(n) == [1..n -> Alphabet]

Texts == UNION {StrOfLen(n) : n \in 0..MaxTextLen}

Buffers == UNION {StrOfLen(n) : n \in 0..(MaxTextLen + 1)}

TimerIds == 1..MaxTimers

VARIABLES
  \* TypingEngine fields
  targetText, userInput, startTime, endTime, isActive, updateInterval,
  \* host environment: the interval timers still scheduled, and Date.now()
  timers, now,
  \* observers: events dispatched by the last handler, the last handler run,
  \* whether setTargetText was called since the last reset(), and the number
  \* of 'start' / 'complete' events since the last reset()/setTargetText()
  emitted, lastCall, targetSet, startCount, completeCount,
  \* observer: the detail object of the event the last handler dispatched
  metrics,
  \* passageStore: the committed content of the object store of each difficulty
  db,
  \* passageStore: the record of the rawBooks store of each book id
  rawBooks,
  \* main.js: loadAllBooks' position in config.books with what became of each
  \* book, and appState.isInitialized
  loadAll, isInitialized,
  \* RemotePassageService: the passages of each cache key, the call whose
  \* request the requestQueue holds for each difficulty (0 for no entry), the
  \* getPassage calls, the calls whose fetchFromAPI is in flight, the number of
  \* prefetches in flight per difficulty and the number of passages that
  \* prefetches brought so far
  cache, requestQueue, calls, fetches, prefetches, served,
  \* main.js: appState.currentDifficulty, appState.currentPassage, and the
  \* localStorage item `typing-speed-best-<difficulty>` of each difficulty
  currentDifficulty, currentPassage, best,
  \* passageGenerator: the module-level usedPassages, and the getRandom calls
  \* suspended at `await getPassages(difficulty)`
  usedPassages, pendingRandom,
  \* observers: the last getRandom result (with whether that call cleared the
\* used set), and per difficulty the number of
  \* passages getRandom returned since usedPassages[difficulty] was last empty
  lastResult, draws,
  \* passageGenerator: the getById calls suspended at an await, and (observer)
  \* the getById call that returned in the last step
  pendingById, lastById,
  \* passageStore: the storePassages call in flight or last finished, with
  \* its transaction's view of the object store
  storeCall,
  \* observer: the result of the last getPassages since the last storePassages
  lastRead,
  \* textProcessor: the processBook call in flight or last finished, with
  \* (observer) the candidates it examined
  bookCall,
  \* difficultyAnalyzer: (observer) the last analyze call and what it returned
  analyzeCall

engineVars == <<targetText, userInput, startTime, endTime, isActive,
                updateInterval, timers, now, emitted, lastCall, targetSet,
                startCount, completeCount, metrics>>

selectorVars == <<usedPassages, pendingRandom, lastResult, draws,
                  pendingById, lastById>>

storeVars == <<storeCall, lastRead>>

processVars == <<bookCall, analyzeCall>>

loaderVars == <<rawBooks, loadAll, isInitialized>>

remoteVars == <<cache, requestQueue, calls, fetches, prefetches, served>>

mainVars == <<currentDifficulty, currentPassage, best>>

appVars == <<loaderVars, remoteVars, mainVars>>

vars == <<engineVars, db, selectorVars, storeVars, processVars, appVars>>

notEngine == <<db, selectorVars, storeVars, processVars, appVars>>

notSelector == <<engineVars, db, storeVars, processVars, appVars>>

notStore == <<engineVars, selectorVars, processVars, appVars>>

\* ------------------------------------------------------------ typing engine

\* SessionState.phase, read off the engine's fields
Phase ==
  IF isActive THEN "Active"
  ELSE IF endTime # Null THEN "Completed"
  ELSE "Idle"

\* the handler run, its argument and the phase it was called in
Call(op, arg) == [op |-> op, arg |-> arg, from |-> Phase]

\* setInterval hands out a handle that is not scheduled yet
FreshTimer == CHOOSE id \in TimerIds : id \notin timers

Min(a, b) == IF a <= b THEN a ELSE b

Max(a, b) == IF a >= b THEN a ELSE b

\* a rounding that drops the fraction
Truncate(num, den) == num \div den

\* Math.round of the non-negative quotient num / den: halves round up
Round(num, den) == (2 * num + den) \div (2 * den)

\* no event with a detail object was dispatched
NoMetrics == [kind |-> "none"]

\* a count that also takes every character typed past the target as an error
CountErrorsPastEnd(input, target) ==
  Cardinality({i \in 1..Len(input) :
                 i > Len(target) \/ input[i] # target[i]})

\* countErrors(): the loop over i < maxLength, here run from the last index
RECURSIVE ErrorsBelow(_, _, _)
ErrorsBelow(input, target, maxLength) ==
  IF maxLength = 0 THEN 0
  ELSE ErrorsBelow(input, target, maxLength - 1)
         + (IF input[maxLength] # target[maxLength] THEN 1 ELSE 0)

CountErrors(input, target) ==
  ErrorsBelow(input, target, Min(Len(input), Len(target)))

\* calculateMetrics() at time t, the clock counting milliseconds: WPM is
\* (characters / 5) / (ms / 1000 / 60), every value rounded to an integer
CalculateMetrics(input, target, start, t) ==
  \* the value of an expression that is NaN or Infinity
  LET NotFinite == 0 - 1
  IN IF start = Null
       THEN [kind |-> "live", grossWPM |-> 0, netWPM |-> 0, accuracy |-> 0,
             errors |-> 0, timeElapsed |-> 0, progress |-> 0]
       ELSE LET ms == t - start
                charactersTyped == Len(input)
                errorsCount == CountErrors(input, target)
            IN [kind |-> "live",
                grossWPM |-> IF ms > 0 THEN Round(charactersTyped * 12000, ms) ELSE 0,
                netWPM |-> IF ms > 0
                             THEN Round(Max(0, charactersTyped - errorsCount) * 12000, ms)
                             ELSE 0,
                accuracy |-> IF charactersTyped > 0
                               THEN Round((charactersTyped - errorsCount) * 100,
                                          charactersTyped)
                               ELSE 0,
                errors |-> errorsCount,
                timeElapsed |-> Round(ms, 1000),
                progress |-> IF Len(target) = 0 THEN NotFinite
                             ELSE Round(charactersTyped * 100, Len(target))]

\* calculateFinalMetrics(): grossWPM, netWPM and accuracy are rounded to one
\* decimal place and held here in tenths (667 stands for 66.7)
CalculateFinalMetrics(input, target, start, end) ==
  LET ms == end - start
      charactersTyped == Len(input)
      errorsCount == CountErrors(input, target)
  IN [kind |-> "final",
      grossWPM |-> IF ms > 0 THEN Round(charactersTyped * 120000, ms) ELSE 0,
      netWPM |-> IF ms > 0
                   THEN Round(Max(0, charactersTyped - errorsCount) * 120000, ms)
                   ELSE 0,
      accuracy |-> IF charactersTyped > 0
                     THEN Round((charactersTyped - errorsCount) * 1000,
                                charactersTyped)
                     ELSE 0,
      errors |-> errorsCount,
      timeElapsed |-> Round(ms, 1000),
      totalCharacters |-> charactersTyped,
      targetLength |-> Len(target)]

\* reset(): every field except targetText.  The handle is overwritten with
\* null; clearInterval is not called, so the host keeps the timer scheduled.
\* (errors and lastUpdateTime are written here and read nowhere.)
ResetFields ==
  /\ userInput' = <<>>
  /\ startTime' = Null
  /\ endTime' = Null
  /\ isActive' = FALSE
  /\ updateInterval' = Null
  /\ timers' = timers

ResetEngine ==
  \* reset() as a caller's step: what it does to the engine
  /\ targetText' = <<>>
  /\ ResetFields
  /\ emitted' = <<>>
  /\ lastCall' = Call("reset", <<>>)
  /\ metrics' = NoMetrics
  /\ targetSet' = FALSE
  /\ startCount' = 0
  /\ completeCount' = 0
  /\ now' = now

Reset == ResetEngine /\ UNCHANGED notEngine

\* setTargetText that stores the text without calling reset()
SetTargetTextNoReset(text) ==
  /\ targetText' = text
  /\ emitted' = <<>>
  /\ lastCall' = Call("setTargetText", text)
  /\ metrics' = NoMetrics
  /\ targetSet' = TRUE
  /\ startCount' = 0
  /\ completeCount' = 0
  /\ UNCHANGED <<userInput, startTime, endTime, isActive, updateInterval,
                 timers, now, notEngine>>

SetTarget(text) ==
  \* setTargetText(text) as a caller's step: what it does to the engine
  /\ ResetFields
  /\ targetText' = text
  /\ emitted' = <<>>
  /\ lastCall' = Call("setTargetText", text)
  /\ metrics' = NoMetrics
  /\ targetSet' = TRUE
  /\ startCount' = 0
  /\ completeCount' = 0
  /\ now' = now

SetTargetText(text) == SetTarget(text) /\ UNCHANGED notEngine

\* processInput that starts a session on every non-empty input
StartsOnEveryInput(input) == Len(input) > 0

\* processInput that starts a session on any input while no start time is set
StartsOnEmptyInput(input) == startTime = Null

\* processInput that starts a session whenever the engine is not active
StartsWhenInactive(input) == ~isActive /\ Len(input) > 0

\* processInput, line 39: if (!this.startTime && input.length > 0)
StartsSession(input) == startTime = Null /\ Len(input) > 0

\* a test that a buffer longer than the target passes as well
ReachesOrPassesEnd(input) == Len(input) >= Len(targetText)

\* processInput, line 47: if (input.length === this.targetText.length)
ReachesEnd(input) == Len(input) = Len(targetText)

\* complete() without its guard
CompleteRunsAlways(active) == TRUE

\* complete(), line 60: if (!this.isActive) return;
CompleteRuns(active) == active

\* stopUpdateLoop(): the timers left scheduled once the handle h is cleared
StopUpdateLoop(h, scheduled) == IF h # Null THEN scheduled \ {h} ELSE scheduled

\* processInput with the complete() it calls.  The calculateMetrics() of
\* line 53 reads the fields and changes none, and its result is dropped.
Process(input) ==
  \* processInput(input) as a caller's step: what it does to the engine
  LET starts == StartsSession(input)
      handle == IF starts THEN FreshTimer ELSE updateInterval
      scheduled == IF starts THEN timers \cup {FreshTimer} ELSE timers
      active == IF starts THEN TRUE ELSE isActive
      completes == ReachesEnd(input) /\ CompleteRuns(active)
  IN /\ starts => Cardinality(timers) < MaxTimers
     /\ userInput' = input
     /\ startTime' = IF starts THEN now ELSE startTime
     /\ endTime' = IF completes THEN now ELSE endTime
     /\ isActive' = IF completes THEN FALSE ELSE active
     /\ updateInterval' = IF completes THEN Null ELSE handle
     /\ timers' = IF completes THEN StopUpdateLoop(handle, scheduled) ELSE scheduled
     /\ emitted' = (IF starts THEN <<"start">> ELSE <<>>)
                     \o (IF completes THEN <<"complete">> ELSE <<>>)
     /\ startCount' = IF starts THEN startCount + 1 ELSE startCount
     /\ completeCount' = IF completes THEN completeCount + 1 ELSE completeCount
     /\ lastCall' = Call("processInput", input)
     /\ metrics' = IF completes
                     THEN CalculateFinalMetrics(input, targetText,
                                                IF starts THEN now ELSE startTime,
                                                now)
                     ELSE NoMetrics
     /\ UNCHANGED <<targetText, now, targetSet>>

ProcessInput(input) == Process(input) /\ UNCHANGED notEngine

\* an interval callback that dispatches 'update' without testing isActive
TickUnguarded(id) ==
  /\ id \in timers
  /\ emitted' = <<"update">>
  /\ lastCall' = Call("tick", <<>>)
  /\ metrics' = CalculateMetrics(userInput, targetText, startTime, now)
  /\ UNCHANGED <<targetText, userInput, startTime, endTime, isActive,
                 updateInterval, timers, now, targetSet, startCount,
                 completeCount, notEngine>>

\* the setInterval callback of startUpdateLoop, for a timer still scheduled
Tick(id) ==
  /\ id \in timers
  /\ emitted' = IF isActive THEN <<"update">> ELSE <<>>
  /\ lastCall' = Call("tick", <<>>)
  /\ metrics' = IF isActive
                  THEN CalculateMetrics(userInput, targetText, startTime, now)
                  ELSE NoMetrics
  /\ UNCHANGED <<targetText, userInput, startTime, endTime, isActive,
                 updateInterval, timers, now, targetSet, startCount,
                 completeCount, notEngine>>

\* the wall clock moves between two handlers
AdvanceClock ==
  /\ now < MaxTime
  /\ now' = now + 1
  /\ emitted' = <<>>
  /\ lastCall' = Call("clock", <<>>)
  /\ metrics' = NoMetrics
  /\ UNCHANGED <<targetText, userInput, startTime, endTime, isActive,
                 updateInterval, timers, targetSet, startCount, completeCount,
                 notEngine>>

\* new TypingEngine(): the constructor calls reset()
InitEngine ==
  /\ targetText = <<>>
  /\ userInput = <<>>
  /\ startTime = Null
  /\ endTime = Null
  /\ isActive = FALSE
  /\ updateInterval = Null
  /\ timers = {}
  /\ now = 1
  /\ emitted = <<>>
  /\ lastCall = [op |-> "new", arg |-> <<>>, from |-> "Idle"]
  /\ targetSet = FALSE
  /\ startCount = 0
  /\ completeCount = 0
  /\ metrics = NoMetrics

NextEngine ==
  \/ Reset
  \/ \E text \in Texts : SetTargetText(text)
  \/ \E input \in Buffers : ProcessInput(input)
  \/ \E id \in TimerIds : Tick(id)
  \/ AdvanceClock

NextExample ==
  \* the session of the worked example: target "cat", and the buffers of a
  \* typist who enters "cot" or "cat", one character at a time or at once
  LET ExampleTexts == {<<"c", "a", "t">>}
      ExampleBuffers ==
        {<<>>, <<"c">>, <<"c", "o">>, <<"c", "a">>, <<"c", "o", "t">>,
         <<"c", "a", "t">>, <<"c", "o", "t", "s">>}
  IN \/ Reset
     \/ \E text \in ExampleTexts : SetTargetText(text)
     \/ \E input \in ExampleBuffers : ProcessInput(input)
     \/ \E id \in TimerIds : Tick(id)
     \/ AdvanceClock

\* ---------------------------------------------------------- passage selector

Difficulties == {"beginner", "intermediate", "expert"}

\* processBook gives the n-th passage accepted from the book of a difficulty
\* the id `${bookCfg.id}_${n}`
PassageId(d, n) == <<d, n>>

Passage(d, n) == [id |-> PassageId(d, n)]

\* the value getRandom returns when it has no passage
NoPassage == [id |-> <<"none", 0>>]

\* the passages of an object store as getAll returns them: in key order
RECURSIVE InKeyOrder(_)
InKeyOrder(S) ==
  IF S = {} THEN <<>>
  ELSE LET first == CHOOSE p \in S : \A q \in S : p.id[2] <= q.id[2]
       IN <<first>> \o InKeyOrder(S \ {first})

Range(seq) == {seq[i] : i \in 1..Len(seq)}

\* a filter that keeps the passages already used
UnusedUnfiltered(passages, used) == passages

\* passages.filter(p => !usedPassages[difficulty].has(p.id))
Unused(passages, used) == SelectSeq(passages, LAMBDA p : p.id \notin used)

\* shuffleArray: every order a Fisher-Yates shuffle of the array can produce
ShuffleArray(array) ==
  {s \in [1..Len(array) -> Range(array)] : Range(s) = Range(array)}

\* getRandomFromArray: every element the random index can select
GetRandomFromArray(array) ==
  IF Len(array) = 0 THEN {NoPassage}
  ELSE IF Len(array) = 1 THEN {array[1]}
  ELSE {array[i] : i \in 1..Len(array)}

\* a read that returns the passages of every object store
GetAllOfAnyStore(d) == InKeyOrder(UNION {db[e] : e \in Difficulties})

\* getPassages(difficulty): getAll() on the object store of that difficulty
GetAll(d) == InKeyOrder(db[d])

\* no getById call returned in this step
NoById == [d |-> "none", id |-> <<"none", 0>>, passage |-> NoPassage,
           via |-> "none"]

GetRandomCall(d) ==
  \* getRandom up to `await getPassages(difficulty)`
  LET PendingCalls == pendingRandom["beginner"] + pendingRandom["intermediate"]
                        + pendingRandom["expert"]
  IN /\ PendingCalls < MaxPending
     /\ pendingRandom' = [pendingRandom EXCEPT ![d] = @ + 1]
     /\ lastById' = NoById
     /\ UNCHANGED <<notSelector, usedPassages, lastResult, draws, pendingById>>

\* lines 33-53: the unused passages, or every passage when none is unused
CandidatePassages(passages, used) ==
  IF Len(Unused(passages, used)) = 0 THEN passages ELSE Unused(passages, used)

\* lines 48-56: the passages that shuffleArray followed by getRandomFromArray
\* can select from the candidates
Drawable(candidatePassages) ==
  UNION {GetRandomFromArray(shuffled) : shuffled \in ShuffleArray(candidatePassages)}

\* an exhausted used set that is left as it is
UsedKept(exhausted, used) == used

\* lines 43-45: usedPassages[difficulty].clear() when no passage is unused
UsedAfterClear(exhausted, used) == IF exhausted THEN {} ELSE used

\* getRandom from the resolution of getPassages to its return
GetRandomResolve(d) ==
  /\ LET passages == GetAll(d)
         unused == Unused(passages, usedPassages[d])
         exhausted == Len(unused) = 0
         used1 == UsedAfterClear(exhausted, usedPassages[d])
     IN IF Len(passages) = 0
          THEN /\ lastResult' = [d |-> d, passage |-> NoPassage, failed |-> FALSE,
                       cleared |-> FALSE]
               /\ UNCHANGED <<usedPassages, draws>>
          ELSE \E passage \in Drawable(CandidatePassages(passages, usedPassages[d])) :
                 /\ usedPassages' = [usedPassages EXCEPT ![d] = used1 \cup {passage.id}]
                 /\ draws' = [draws EXCEPT ![d] = IF exhausted THEN 1 ELSE @ + 1]
                 /\ lastResult' = [d |-> d, passage |-> passage, failed |-> FALSE,
                                   cleared |-> exhausted]

GetRandomReturn(d) ==
  /\ pendingRandom[d] > 0
  /\ pendingRandom' = [pendingRandom EXCEPT ![d] = @ - 1]
  /\ GetRandomResolve(d)
  /\ lastById' = NoById
  /\ UNCHANGED <<pendingById, notSelector>>

\* a catch block that also empties the used set of the difficulty
GetRandomFailClears(d) ==
  /\ pendingRandom[d] > 0
  /\ pendingRandom' = [pendingRandom EXCEPT ![d] = @ - 1]
  /\ lastResult' = [d |-> d, passage |-> NoPassage, failed |-> TRUE,
                       cleared |-> FALSE]
  /\ usedPassages' = [usedPassages EXCEPT ![d] = {}]
  /\ draws' = [draws EXCEPT ![d] = 0]
  /\ lastById' = NoById
  /\ UNCHANGED <<notSelector, pendingById>>

\* getRandom when getPassages rejects: the catch block returns null
GetRandomFail(d) ==
  /\ pendingRandom[d] > 0
  /\ pendingRandom' = [pendingRandom EXCEPT ![d] = @ - 1]
  /\ lastResult' = [d |-> d, passage |-> NoPassage, failed |-> TRUE,
                       cleared |-> FALSE]
  /\ lastById' = NoById
  /\ UNCHANGED <<notSelector, usedPassages, draws, pendingById>>

\* a lookup that returns the first passage whatever its id
FindFirst(passages, id) == IF Len(passages) = 0 THEN NoPassage ELSE passages[1]

\* passages.find(p => p.id === passageId) || null
FindById(passages, id) ==
  IF \E i \in 1..Len(passages) : passages[i].id = id
    THEN passages[CHOOSE i \in 1..Len(passages) :
                    /\ passages[i].id = id
                    /\ \A j \in 1..(i - 1) : passages[j].id # id]
    ELSE NoPassage

\* getById up to `await getPassages(difficulty)`; one retry is followed at a
\* time
GetByIdCall(d, id) ==
  /\ pendingById = {}
  /\ pendingById' = pendingById \cup {[d |-> d, id |-> id, at |-> "getPassages"]}
  /\ lastById' = NoById
  /\ UNCHANGED <<notSelector, usedPassages, pendingRandom, lastResult, draws>>

\* getById from the resolution of getPassages: it returns the passage found,
\* or calls getRandom, which suspends at its own await
GetByIdLookup(d, id) ==
  LET call == [d |-> d, id |-> id, at |-> "getPassages"]
      passage == FindById(GetAll(d), id)
  IN /\ call \in pendingById
     /\ IF passage # NoPassage
          THEN /\ pendingById' = pendingById \ {call}
               /\ lastById' = [d |-> d, id |-> id, passage |-> passage,
                               via |-> "lookup"]
          ELSE /\ pendingById' = (pendingById \ {call})
                                   \cup {[call EXCEPT !.at = "getRandom"]}
               /\ lastById' = NoById
     /\ UNCHANGED <<notSelector, usedPassages, pendingRandom, lastResult, draws>>

\* getById when its getPassages rejects: nothing catches, so getById rejects
GetByIdReject(d, id) ==
  LET call == [d |-> d, id |-> id, at |-> "getPassages"]
  IN /\ call \in pendingById
     /\ pendingById' = pendingById \ {call}
     /\ lastById' = [d |-> d, id |-> id, passage |-> NoPassage,
                     via |-> "rejected"]
     /\ UNCHANGED <<notSelector, usedPassages, pendingRandom, lastResult, draws>>

\* the getRandom that getById called returns, and getById returns its result
GetByIdFallback(d, id) ==
  LET call == [d |-> d, id |-> id, at |-> "getRandom"]
  IN /\ call \in pendingById
     /\ pendingById' = pendingById \ {call}
     /\ GetRandomResolve(d)
     /\ lastById' = [d |-> d, id |-> id, passage |-> lastResult'.passage,
                     via |-> "fallback"]
     /\ UNCHANGED <<pendingRandom, notSelector>>

\* the getRandom that getById called catches a rejected getPassages
GetByIdFallbackFail(d, id) ==
  LET call == [d |-> d, id |-> id, at |-> "getRandom"]
  IN /\ call \in pendingById
     /\ pendingById' = pendingById \ {call}
     /\ lastResult' = [d |-> d, passage |-> NoPassage, failed |-> TRUE,
                       cleared |-> FALSE]
     /\ lastById' = [d |-> d, id |-> id, passage |-> NoPassage,
                     via |-> "fallback"]
     /\ UNCHANGED <<notSelector, usedPassages, pendingRandom, draws>>

ResetUsed(d) ==
  /\ usedPassages' = [usedPassages EXCEPT ![d] = {}]
  /\ draws' = [draws EXCEPT ![d] = 0]
  /\ lastById' = NoById
  /\ UNCHANGED <<notSelector, pendingRandom, lastResult, pendingById>>

ResetAllUsed ==
  /\ usedPassages' = [d \in Difficulties |-> {}]
  /\ draws' = [d \in Difficulties |-> 0]
  /\ lastById' = NoById
  /\ UNCHANGED <<notSelector, pendingRandom, lastResult, pendingById>>

InitSelector ==
  /\ usedPassages = [d \in Difficulties |-> {}]
  /\ pendingRandom = [d \in Difficulties |-> 0]
  /\ lastResult = [d |-> "none", passage |-> NoPassage, failed |-> FALSE,
                       cleared |-> FALSE]
  /\ draws = [d \in Difficulties |-> 0]
  /\ pendingById = {}
  /\ lastById = NoById

\* the repository after book processing: passages 0..n-1 for each difficulty
MaxSize(d) == IF d = "beginner" THEN MaxPassages ELSE MaxOtherPassages

InitProcessedDb ==
  \E size \in [Difficulties -> 0..MaxPassages] :
    /\ \A d \in Difficulties : size[d] <= MaxSize(d)
    /\ db = [d \in Difficulties |-> {Passage(d, n) : n \in 0..(size[d] - 1)}]

\* the callers of the selector, and the used-id tracking each of them reaches:
\* getRandom takes no selector argument, every caller gets the one
\* module-level usedPassages object
Callers == {"session1", "session2"}

SelectorOf(caller) == usedPassages

\* the ids a caller may hold: those of a full repository and one that processBook
\* never assigned
AskedIds(d) == {PassageId(d, n) : n \in 0..MaxSize(d)}

NextSelector ==
  \/ \E d \in Difficulties : GetRandomCall(d)
  \/ \E d \in Difficulties : GetRandomReturn(d)
  \/ \E d \in Difficulties : GetRandomFail(d)
  \/ \E d \in Difficulties : ResetUsed(d)
  \/ ResetAllUsed

\* "try again": getById, with the used sets cleared now and then
NextById ==
  \/ ResetAllUsed
  \/ \E d \in Difficulties : \E id \in AskedIds(d) : GetByIdCall(d, id)
  \/ \E d \in Difficulties : \E id \in AskedIds(d) : GetByIdLookup(d, id)
  \/ \E d \in Difficulties : \E id \in AskedIds(d) : GetByIdReject(d, id)
  \/ \E d \in Difficulties : \E id \in AskedIds(d) : GetByIdFallback(d, id)
  \/ \E d \in Difficulties : \E id \in AskedIds(d) : GetByIdFallbackFail(d, id)

\* ---------------------------------------------------------- passage store

\* storePassages before its first call
NoStoreCall ==
  [pc |-> "idle", d |-> "none", prev |-> {}, new |-> {}, todo |-> <<>>, view |-> {}]

NoRead == [d |-> "none", passages |-> {}]

\* the arrays storePassages may be handed for a difficulty
Batches(d) == SUBSET {Passage(d, n) : n \in 0..(MaxStored - 1)}

\* a call whose requests each run in a transaction of their own
TransactionPerRequest == FALSE

\* storePassages, line 93: clear() and every put() are requests of the one
\* readwrite transaction tx, which ends at `await tx.done`
OneTransaction == TRUE

\* the committed stores after a request of the call left its store as `view`:
\* a request's effect stays inside the transaction until the transaction ends
AfterRequest(view) ==
  IF OneTransaction THEN db ELSE [db EXCEPT ![storeCall.d] = view]

\* a put that stores nothing
PutIgnored(view, passage) == view

\* store.put(passage): keyPath 'id', an entry with the same key is replaced
Put(view, passage) == {p \in view : p.id # passage.id} \cup {passage}

\* storePassages up to the creation of the transaction.  loadAllBooks awaits
\* each processBook, so one call runs at a time.
StoreBegin(d, batch) ==
  /\ storeCall.pc \in {"idle", "done"}
  /\ storeCall' = [pc |-> "clear", d |-> d, prev |-> db[d], new |-> batch,
                   todo |-> InKeyOrder(batch), view |-> db[d]]
  /\ lastRead' = NoRead
  /\ UNCHANGED db

\* storePassages called on its own
StoreCall(d, batch) == StoreBegin(d, batch) /\ UNCHANGED notStore

\* await tx.store.clear()
StoreClear ==
  /\ storeCall.pc = "clear"
  /\ storeCall' = [storeCall EXCEPT !.pc = "put", !.view = {}]
  /\ db' = AfterRequest({})
  /\ UNCHANGED <<lastRead, notStore>>

\* await tx.store.put(passage), for the next passage of the array
StorePut ==
  /\ storeCall.pc = "put"
  /\ storeCall.todo # <<>>
  /\ LET view == Put(storeCall.view, Head(storeCall.todo))
     IN /\ storeCall' = [storeCall EXCEPT !.todo = Tail(@), !.view = view]
        /\ db' = AfterRequest(view)
  /\ UNCHANGED <<lastRead, notStore>>

\* await tx.done: the transaction commits
StoreDone ==
  /\ storeCall.pc = "put"
  /\ storeCall.todo = <<>>
  /\ db' = [db EXCEPT ![storeCall.d] = storeCall.view]
  /\ storeCall' = [storeCall EXCEPT !.pc = "done"]
  /\ UNCHANGED <<lastRead, notStore>>

\* getPassages: db.getAll(storeName), a readonly transaction of its own
GetPassages(d) ==
  \* a readwrite transaction on the object store of d is open; IndexedDB starts
  \* a getAll on that store only after it has finished
  LET TxOpen(dIn) ==
        OneTransaction /\ storeCall.d = dIn /\ storeCall.pc \in {"clear", "put"}
  IN /\ ~TxOpen(d)
     /\ lastRead' = [d |-> d, passages |-> db[d]]
     /\ UNCHANGED <<db, storeCall, notStore>>

InitStore ==
  /\ storeCall = NoStoreCall
  /\ lastRead = NoRead

NextStore ==
  \/ \E d \in Difficulties : \E batch \in Batches(d) : StoreCall(d, batch)
  \/ StoreClear
  \/ StorePut
  \/ StoreDone
  \/ \E d \in Difficulties : GetPassages(d)

\* ------------------------------------------------------------ text processing
\* A string is the sequence of its characters.

LowerCase ==
  <<"a", "b", "c", "d", "e", "f", "g", "h", "i", "j", "k", "l",
    "m", "n", "o", "p", "q", "r", "s", "t", "u", "v", "w", "x", "y", "z">>

UpperCase ==
  <<"A", "B", "C", "D", "E", "F", "G", "H", "I", "J", "K", "L",
    "M", "N", "O", "P", "Q", "R", "S", "T", "U", "V", "W", "X", "Y", "Z">>

Digit == {"0", "1", "2", "3", "4", "5", "6", "7", "8", "9"}

Letter == Range(LowerCase) \cup Range(UpperCase)

Vowel == {"a", "e", "i", "o", "u", "y"}

\* the characters that \s matches
WhiteSpace == {" ", "\t", "\n", "\r", "\f"}

\* the characters that \w matches
WordChar == Letter \cup Digit \cup {"_"}

\* the characters of [.!?]
Terminator == {".", "!", "?"}

\* the characters of [.,]
Mark == {".", ","}

\* stands at the place of a character that a replacement removes
Removed == ""

ToLowerCase(c) ==
  IF c \in Range(UpperCase)
    THEN LowerCase[CHOOSE i \in 1..Len(UpperCase) : UpperCase[i] = c]
    ELSE c

\* the characters of s that a replacement left in place
Kept(s) == SelectSeq(s, LAMBDA c : c # Removed)

\* the number of consecutive characters of a class from s[i] on
RunLength(s, i, class) ==
  IF i > Len(s) THEN 0
  ELSE (CHOOSE k \in i..(Len(s) + 1) :
          /\ k > Len(s) \/ s[k] \notin class
          /\ \A j \in i..(k - 1) : s[j] \in class) - i

\* the number of consecutive characters outside a class from s[i] on
RunLengthNot(s, i, class) ==
  IF i > Len(s) THEN 0
  ELSE (CHOOSE k \in i..(Len(s) + 1) :
          /\ k > Len(s) \/ s[k] \in class
          /\ \A j \in i..(k - 1) : s[j] \notin class) - i

\* the number of consecutive characters of a class from s[i] backwards
RunLengthBack(s, i, class) ==
  IF i < 1 THEN 0
  ELSE i - (CHOOSE k \in 0..i :
              /\ k < 1 \/ s[k] \notin class
              /\ \A j \in (k + 1)..i : s[j] \in class)

\* s[i] is the first character of a run of characters of the class
StartsRun(s, i, class) ==
  s[i] \in class /\ (i = 1 \/ s[i - 1] \notin class)

\* s.replace(/\s+/g, ' ')
CollapseWhiteSpace(s) ==
  Kept([i \in 1..Len(s) |->
          IF s[i] \notin WhiteSpace THEN s[i]
          ELSE IF StartsRun(s, i, WhiteSpace) THEN " " ELSE Removed])

\* s.trim()
Trim(s) ==
  SubSeq(s, 1 + RunLength(s, 1, WhiteSpace),
         Len(s) - RunLengthBack(s, Len(s), WhiteSpace))

\* s.replace(regexp, r) with the g flag, from s[i] on: lens[j] is the length
\* of the match that starts at s[j], 0 without a match; the text up to the
\* leftmost match, r, then the rest after that match
RECURSIVE ReplaceFrom(_, _, _, _)
ReplaceFrom(s, i, lens, r) ==
  IF \A j \in i..Len(s) : lens[j] = 0 THEN SubSeq(s, i, Len(s))
  ELSE LET j == CHOOSE j \in i..Len(s) :
                  lens[j] > 0 /\ \A k \in i..(j - 1) : lens[k] = 0
       IN SubSeq(s, i, j - 1) \o r \o ReplaceFrom(s, j + lens[j], lens, r)

\* s.replace(/\b(w1|w2|...)\b/gi, '')
RemoveWords(s, words) ==
  \* \b at the position before sIn[i]
  LET WordBoundary(sIn, i) ==
        (i > 1 /\ sIn[i - 1] \in WordChar) # (i <= Len(sIn) /\ sIn[i] \in WordChar)
      \* the word matches at sIn[i], letter case ignored, and a \b follows it
      MatchesWordAt(sIn, i, word) ==
        /\ i + Len(word) - 1 <= Len(sIn)
        /\ \A k \in 1..Len(word) : ToLowerCase(sIn[i + k - 1]) = word[k]
        /\ WordBoundary(sIn, i + Len(word))
      \* the length of the match of /\b(w1|w2|...)\b/i at sIn[i], 0 without a match:
      \* the first alternative that matches is taken
      WordMatch(sIn, i, wordsIn) ==
        IF WordBoundary(sIn, i) /\ \E k \in 1..Len(wordsIn) : MatchesWordAt(sIn, i, wordsIn[k])
          THEN Len(wordsIn[CHOOSE k \in 1..Len(wordsIn) :
                           /\ MatchesWordAt(sIn, i, wordsIn[k])
                           /\ \A j \in 1..(k - 1) : ~MatchesWordAt(sIn, i, wordsIn[j])])
          ELSE 0
  IN ReplaceFrom(s, 1, [i \in 1..Len(s) |-> WordMatch(s, i, words)], <<>>)

\* s.replace(/([marks])\s+/g, '$1 '): of the white space that follows a mark,
\* the first character becomes a space and the others go
OneSpaceAfter(s, marks) ==
  Kept([i \in 1..Len(s) |->
          LET before == i - RunLengthBack(s, i, WhiteSpace)
          IN IF s[i] \in WhiteSpace /\ before >= 1 /\ s[before] \in marks
               THEN (IF before = i - 1 THEN " " ELSE Removed)
               ELSE s[i]])

\* s.replace(/[class]{2,}/g, c): of a run of two or more, the first character
\* becomes c and the others go
ShortenRuns(s, class, c) ==
  Kept([i \in 1..Len(s) |->
          IF s[i] \notin class THEN s[i]
          ELSE IF StartsRun(s, i, class)
            THEN (IF RunLength(s, i, class) > 1 THEN c ELSE s[i])
            ELSE Removed])

\* a test that takes only the beginner difficulty for strict
StrictOnlyBeginner(difficulty) == difficulty = "beginner"

\* difficulty === 'beginner' || difficulty === 'intermediate', the test of
\* isCharacterSetValid, cleanPassageText and isPassageSuitableForDifficulty
Strict(difficulty) == difficulty \in {"beginner", "intermediate"}

\* the characters of [a-zA-Z0-9\s.,]
AllowedChar(c) == c \in Letter \cup Digit \cup WhiteSpace \cup Mark

\* /^[a-zA-Z0-9\s.,]*$/.test(text)
OnlyAllowedChars(text) == \A i \in 1..Len(text) : AllowedChar(text[i])

\* cleanPassageText for beginner and intermediate, lines 185-233
CleanStrict(text) ==
  \* the alternatives of the regular expressions of lines 187, 188, 239 and 240
  LET StrictBoilerplate1 ==
        <<<<"g", "u", "t", "e", "n", "b", "e", "r", "g">>,
          <<"p", "r", "o", "j", "e", "c", "t", " ", "g", "u", "t", "e", "n", "b", "e",
            "r", "g">>,
          <<"p", "r", "o", "d", "u", "c", "e", "d", " ", "b", "y">>,
          <<"c", "r", "e", "a", "t", "e", "d", " ", "b", "y">>,
          <<"e", "b", "o", "o", "k">>,
          <<"e", "t", "e", "x", "t">>>>
      StrictBoilerplate2 ==
        <<<<"i", "s", "b", "n">>,
          <<"e", "d", "i", "t", "i", "o", "n">>,
          <<"v", "o", "l", "u", "m", "e">>,
          <<"c", "o", "p", "y", "r", "i", "g", "h", "t">>,
          <<"p", "u", "b", "l", "i", "c", " ", "d", "o", "m", "a", "i", "n">>,
          <<"g", "u", "t", "e", "n", "b", "e", "r", "g", ".", "o", "r", "g">>>>
      \* s.replace(/\*+[^*]*\*+/g, '')
      RemoveStarred(s) ==
        \* the length of the match of /\*+[^*]*\*+/ at sIn[i], 0 without a match: a run
        \* of asterisks, the text up to the next asterisk and the run that starts
        \* there; without a later asterisk, a run of two or more
        LET StarredMatch(sIn, i) ==
              LET first == RunLength(sIn, i, {"*"})
                  between == RunLengthNot(sIn, i + first, {"*"})
                  second == RunLength(sIn, i + first + between, {"*"})
              IN IF first > 0 /\ second > 0 THEN first + between + second
                 ELSE IF first > 1 THEN first
                 ELSE 0
        IN ReplaceFrom(s, 1, [i \in 1..Len(s) |-> StarredMatch(s, i)], <<>>)
      \* s.replace(/\[[^\]]*\]/g, '') and s.replace(/\([^)]*\)/g, '')
      RemoveEnclosed(s, open, close) ==
        \* the length of the match of /\[[^\]]*\]/ or /\([^)]*\)/ at sIn[i], 0 without
        \* a match: from an opening character to the first closing character after it
        LET EnclosedMatch(sIn, i, openIn, closeIn) ==
              LET inside == RunLengthNot(sIn, i + 1, {closeIn})
              IN IF sIn[i] = openIn /\ i + inside + 1 <= Len(sIn) THEN inside + 2 ELSE 0
        IN ReplaceFrom(s, 1, [i \in 1..Len(s) |-> EnclosedMatch(s, i, open, close)],
                       <<>>)
      \* cleanPassageText, lines 204-211: the characters the filter keeps, by
      \* character code
      KeptByFilter(c) == c \in Letter \cup Digit \cup {" ", ".", ","}
      \* s.replace(/\s+([marks])/g, '$1'): the white space that a mark follows goes
      NoSpaceBefore(s, marks) ==
        Kept([i \in 1..Len(s) |->
                LET after == i + RunLength(s, i, WhiteSpace)
                IN IF s[i] \in WhiteSpace /\ after <= Len(s) /\ s[after] \in marks
                     THEN Removed
                     ELSE s[i]])
      \* s.replace(/^\s*[.,]\s*/, '')
      DropLeadingMark(s) ==
        LET lead == RunLength(s, 1, WhiteSpace)
        IN IF lead < Len(s) /\ s[lead + 1] \in Mark
             THEN SubSeq(s, lead + 2 + RunLength(s, lead + 2, WhiteSpace), Len(s))
             ELSE s
      \* s.replace(/\s*[.,]\s*$/, '.'): a text whose last character other than
      \* white space is no mark is left as it is
      EndMarkToPeriod(s) ==
        LET last == Len(s) - RunLengthBack(s, Len(s), WhiteSpace)
        IN IF last >= 1 /\ s[last] \in Mark
             THEN SubSeq(s, 1, last - 1 - RunLengthBack(s, last - 1, WhiteSpace))
                    \o <<".">>
             ELSE s
  IN LET removed ==
           RemoveEnclosed(
             RemoveEnclosed(
               RemoveStarred(
                 RemoveWords(RemoveWords(text, StrictBoilerplate1),
                             StrictBoilerplate2)),
               "[", "]"),
             "(", ")")
         filtered == SelectSeq(removed, KeptByFilter)
         spaced == NoSpaceBefore(OneSpaceAfter(CollapseWhiteSpace(filtered), Mark),
                                 Mark)
         cleaned == Trim(EndMarkToPeriod(DropLeadingMark(
                      ShortenRuns(spaced, Mark, "."))))
     IN IF ~OnlyAllowedChars(cleaned) THEN <<>>
        ELSE IF Len(cleaned) < 20 \/ \A i \in 1..Len(cleaned) : cleaned[i] \notin Letter
          THEN <<>>
          ELSE cleaned

\* cleanPassageText for expert, lines 237-248.  The two quote replacements of
\* lines 243-244 replace " by " and ' by ' and so change nothing.
CleanExpert(text) ==
  LET ExpertBoilerplate1 ==
        <<<<"p", "r", "o", "j", "e", "c", "t", " ", "g", "u", "t", "e", "n", "b", "e",
            "r", "g">>,
          <<"g", "u", "t", "e", "n", "b", "e", "r", "g", ".", "o", "r", "g">>,
          <<"p", "r", "o", "d", "u", "c", "e", "d", " ", "b", "y">>,
          <<"c", "r", "e", "a", "t", "e", "d", " ", "b", "y">>>>
      ExpertBoilerplate2 ==
        <<<<"t", "h", "i", "s", " ", "e", "b", "o", "o", "k">>,
          <<"e", "b", "o", "o", "k">>,
          <<"e", "t", "e", "x", "t">>,
          <<"i", "s", "b", "n">>,
          <<"e", "d", "i", "t", "i", "o", "n">>,
          <<"v", "o", "l", "u", "m", "e">>,
          <<"c", "o", "p", "y", "r", "i", "g", "h", "t">>>>
      \* s.replace(/\*\*\*[^*]*\*\*\*/g, '')
      RemoveStarBlocks(s) ==
        \* the length of the match of /\*\*\*[^*]*\*\*\*/ at sIn[i], 0 without a match
        LET StarBlockMatch(sIn, i) ==
              LET between == RunLengthNot(sIn, i + 3, {"*"})
                  close == i + 3 + between
              IN IF /\ close + 2 <= Len(sIn)
                    /\ \A k \in {i, i + 1, i + 2, close, close + 1, close + 2} : sIn[k] = "*"
                   THEN between + 6
                   ELSE 0
        IN ReplaceFrom(s, 1, [i \in 1..Len(s) |-> StarBlockMatch(s, i)], <<>>)
      \* s.replace(/[.]{2,}/g, '...')
      Ellipses(s) ==
        ReplaceFrom(s, 1, [i \in 1..Len(s) |->
                             IF RunLength(s, i, {"."}) >= 2
                               THEN RunLength(s, i, {"."})
                               ELSE 0], <<".", ".", ".">>)
  IN LET removed ==
           RemoveStarBlocks(
             RemoveWords(RemoveWords(text, ExpertBoilerplate1), ExpertBoilerplate2))
         spaced == OneSpaceAfter(removed, Terminator)
     IN ShortenRuns(ShortenRuns(Ellipses(spaced), {"!"}, "!"), {"?"}, "?")

CleanPassageText(text, difficulty) ==
  IF Len(text) = 0 THEN <<>>
  ELSE LET cleaned == Trim(CollapseWhiteSpace(text))
       IN IF Strict(difficulty) THEN CleanStrict(cleaned)
          ELSE CleanExpert(cleaned)

\* isCharacterSetValid
IsCharacterSetValid(text, difficulty) ==
  Strict(difficulty) => (Len(text) > 0 /\ OnlyAllowedChars(text))

\* the length of the match of /[^.!?]*[.!?]+/ at s[i], 0 without a match
SentenceMatch(s, i) ==
  LET body == RunLengthNot(s, i, Terminator)
      end == RunLength(s, i + body, Terminator)
  IN IF end = 0 THEN 0 ELSE body + end

\* currentText.match(/[^.!?]*[.!?]+/g) || []: a match starts where the one
\* before it ended, and the text after the last terminator matches nothing
RECURSIVE SentencesFrom(_, _)
SentencesFrom(s, i) ==
  IF SentenceMatch(s, i) = 0 THEN <<>>
  ELSE <<SubSeq(s, i, i + SentenceMatch(s, i) - 1)>>
         \o SentencesFrom(s, i + SentenceMatch(s, i))

Sentences(s) == SentencesFrom(s, 1)

\* `if (cleanedText && cleanedText.length >= minLength) candidates.push(...)`
Pushed(cleanedText, minLength) ==
  IF Len(cleanedText) > 0 /\ Len(cleanedText) >= minLength
    THEN <<cleanedText>> ELSE <<>>

\* generateCandidatePassages, lines 142-153: the loop over the sentences
RECURSIVE SentenceCandidates(_, _, _, _, _, _)
SentenceCandidates(sentences, k, builtText, minLength, maxLength, difficulty) ==
  IF k > Len(sentences) THEN <<>>
  ELSE LET newText == builtText \o sentences[k]
       IN (IF Len(newText) >= minLength /\ Len(newText) <= maxLength
             THEN Pushed(CleanPassageText(Trim(newText), difficulty), minLength)
             ELSE <<>>)
            \o (IF Len(newText) > maxLength THEN <<>>
                ELSE SentenceCandidates(sentences, k + 1, newText, minLength,
                                        maxLength, difficulty))

\* generateCandidatePassages, lines 127-163: the loop over the paragraphs;
\* currentText.length < maxLength * 1.5 is 2 * length < 3 * maxLength
RECURSIVE CandidatesFrom(_, _, _, _, _, _)
CandidatesFrom(paragraphs, i, currentText, minLength, maxLength, difficulty) ==
  IF i > Len(paragraphs) \/ 2 * Len(currentText) >= 3 * maxLength THEN <<>>
  ELSE LET paragraph == Trim(paragraphs[i])
           text == IF Len(currentText) = 0 THEN paragraph
                   ELSE currentText \o <<" ">> \o paragraph
       IN (IF Len(text) >= minLength
             THEN SentenceCandidates(Sentences(text), 1, <<>>, minLength,
                                     maxLength, difficulty)
                    \o (IF Len(text) <= maxLength
                          THEN Pushed(CleanPassageText(text, difficulty), minLength)
                          ELSE <<>>)
             ELSE <<>>)
            \o CandidatesFrom(paragraphs, i + 1, text, minLength, maxLength,
                              difficulty)

GenerateCandidatePassages(paragraphs, startIndex, minLength, maxLength, difficulty) ==
  CandidatesFrom(paragraphs, startIndex, <<>>, minLength, maxLength, difficulty)

\* the index of the last \n of the separator /\n\s*\n/ that starts at s[i],
\* or 0 when none starts there
SeparatorEnd(s, i) ==
  IF s[i] # "\n" THEN 0
  ELSE LET ends == {j \in (i + 1)..(i + RunLength(s, i + 1, WhiteSpace)) :
                      s[j] = "\n"}
       IN IF ends = {} THEN 0
          ELSE CHOOSE j \in ends : \A k \in ends : k <= j

\* rawText.split(/\n\s*\n/), the piece in progress starting at s[start]
RECURSIVE SplitFrom(_, _)
SplitFrom(s, start) ==
  IF \A j \in start..Len(s) : SeparatorEnd(s, j) = 0
    THEN <<SubSeq(s, start, Len(s))>>
    ELSE LET j == CHOOSE j \in start..Len(s) :
                    /\ SeparatorEnd(s, j) > 0
                    /\ \A k \in start..(j - 1) : SeparatorEnd(s, k) = 0
         IN <<SubSeq(s, start, j - 1)>> \o SplitFrom(s, SeparatorEnd(s, j) + 1)

\* processBook, line 24
Paragraphs(rawText) ==
  SelectSeq(SplitFrom(rawText, 1), LAMBDA p : Len(Trim(p)) > 0)

\* createFingerprint
CreateFingerprint(text) ==
  LET first == SubSeq(text, 1, Min(50, Len(text)))
  IN Trim(CollapseWhiteSpace([i \in 1..Len(first) |-> ToLowerCase(first[i])]))

\* candidate.split(/\s+/).length: one piece more than there are runs of white
\* space
SplitWordCount(text) ==
  Cardinality({i \in 1..Len(text) : StartsRun(text, i, WhiteSpace)}) + 1

\* the number of characters of a class in a text
CountOf(text, class) == Cardinality({i \in 1..Len(text) : text[i] \in class})

\* a suitability test that asks nothing more of beginner
CharactersSuitable(text, difficulty) ==
  Strict(difficulty) => Len(text) > 0 /\ OnlyAllowedChars(text)

\* isPassageSuitableForDifficulty: length / max(periods, 1) > 120,
\* digits / length > 0.05 and capitals / length > 0.08, multiplied out
IsPassageSuitableForDifficulty(text, difficulty) ==
  /\ Strict(difficulty) => Len(text) > 0 /\ OnlyAllowedChars(text)
  /\ difficulty = "beginner" =>
       /\ Len(text) <= 120 * Max(CountOf(text, {"."}), 1)
       /\ 20 * CountOf(text, Digit) <= Len(text)
       /\ 25 * CountOf(text, Range(UpperCase)) <= 2 * Len(text)

\* countSyllables
CountSyllables(word) ==
  LET lower == [i \in 1..Len(word) |-> ToLowerCase(word[i])]
      w == SelectSeq(lower, LAMBDA c : c \in Range(LowerCase))
      n == Len(w)
      groups == Cardinality({i \in 1..n : StartsRun(w, i, Vowel)})
      silent == IF w[n] = "e" /\ groups > 1 THEN groups - 1 ELSE groups
      le == IF n > 2 /\ w[n] = "e" /\ w[n - 1] = "l" /\ w[n - 2] \notin Vowel
              THEN silent + 1 ELSE silent
  IN IF n = 0 THEN 0 ELSE Max(1, le)

\* analyze, line 16
AnalysisText(text) ==
  Trim(CollapseWhiteSpace(
    [i \in 1..Len(text) |->
       IF text[i] \in WordChar \cup WhiteSpace \cup Terminator THEN text[i]
       ELSE " "]))

\* analyze, lines 19-20: the number of pieces between the runs of terminators
\* that hold more than white space
SentenceCount(cleanText) ==
  Cardinality({i \in 1..Len(cleanText) :
                 /\ cleanText[i] \notin Terminator
                 /\ i = 1 \/ cleanText[i - 1] \in Terminator
                 /\ \E k \in i..(i + RunLengthNot(cleanText, i, Terminator) - 1) :
                      cleanText[k] \notin WhiteSpace})

\* analyze, line 23: where the words of cleanText.split(/\s+/) start
WordStarts(cleanText) ==
  {i \in 1..Len(cleanText) :
     cleanText[i] \notin WhiteSpace /\ (i = 1 \/ cleanText[i - 1] \in WhiteSpace)}

WordAt(cleanText, i) ==
  SubSeq(cleanText, i, i + RunLengthNot(cleanText, i, WhiteSpace) - 1)

\* analyze, lines 27-30: the sum of countSyllables over the words
SyllableSum(cleanText) ==
  Cardinality(UNION {{<<i, k>> : k \in 1..CountSyllables(WordAt(cleanText, i))} :
                       i \in WordStarts(cleanText)})

\* analyze, lines 45-47 and 50: ten times the rounded grade, computed in whole
\* numbers from the counts
GradeTenths(wordCount, sentenceCount, syllableCount) ==
  LET hundredths == 39 * wordCount * wordCount
                      + 1180 * syllableCount * sentenceCount
                      - 1559 * sentenceCount * wordCount
  IN IF hundredths <= 0 THEN 0
     ELSE Round(hundredths, 10 * sentenceCount * wordCount)

\* analyze, lines 40-42 and 51: ten times the rounded ease
EaseTenths(wordCount, sentenceCount, syllableCount) ==
  LET thousandths == 206835 * sentenceCount * wordCount
                       - 1015 * wordCount * wordCount
                       - 84600 * syllableCount * sentenceCount
  IN IF thousandths <= 0 THEN 0
     ELSE Min(1000, Round(thousandths, 100 * sentenceCount * wordCount))

\* analyze without the test of lines 11-13
AnalyzeAnyText(text) ==
  LET cleanText == AnalysisText(text)
      sentenceCount == Max(SentenceCount(cleanText), 1)
      wordCount == Max(Cardinality(WordStarts(cleanText)), 1)
      syllableCount == Max(SyllableSum(cleanText), wordCount)
  IN [grade |-> GradeTenths(wordCount, sentenceCount, syllableCount),
      ease |-> EaseTenths(wordCount, sentenceCount, syllableCount)]

\* analyze: grade and ease are held in tenths
Analyze(text) ==
  IF Len(Trim(text)) = 0 THEN [grade |-> 0, ease |-> 0]
  ELSE LET cleanText == AnalysisText(text)
           sentenceCount == Max(SentenceCount(cleanText), 1)
           wordCount == Max(Cardinality(WordStarts(cleanText)), 1)
           syllableCount == Max(SyllableSum(cleanText), wordCount)
       IN [grade |-> GradeTenths(wordCount, sentenceCount, syllableCount),
           ease |-> EaseTenths(wordCount, sentenceCount, syllableCount)]

\* --------------------------------------------------------------- book loading

\* s.replace(regexp, r) without the g flag: the leftmost match only
ReplaceFirst(s, lens, r) ==
  IF \A j \in 1..Len(s) : lens[j] = 0 THEN s
  ELSE LET j == CHOOSE j \in 1..Len(s) :
                  lens[j] > 0 /\ \A k \in 1..(j - 1) : lens[k] = 0
       IN SubSeq(s, 1, j - 1) \o r \o SubSeq(s, j + lens[j], Len(s))

\* the phrase, given in lower case, stands at s[i], letter case ignored
PhraseAt(s, i, phrase) ==
  /\ i + Len(phrase) - 1 <= Len(s)
  /\ \A k \in 1..Len(phrase) : ToLowerCase(s[i + k - 1]) = phrase[k]

\* for each place of s, the length of the phrase that stands there
PhraseLens(s, phrase) ==
  [i \in 1..Len(s) |-> IF PhraseAt(s, i, phrase) THEN Len(phrase) ELSE 0]

\* for each place of s, the length of the match of /open.*?close/, 0 without
\* a match: the opening part has matched openLens[i] characters, and the
\* closing part is the first one after it, with no line end in between
Between(s, openLens, closeLens) ==
  [i \in 1..Len(s) |->
     LET from == i + openLens[i]
     IN IF openLens[i] = 0 THEN 0
        ELSE IF \E j \in from..Len(s) :
                  /\ closeLens[j] > 0
                  /\ \A k \in from..(j - 1) : s[k] \notin {"\n", "\r"}
          THEN LET j == CHOOSE j \in from..Len(s) :
                          /\ closeLens[j] > 0
                          /\ \A k \in from..(j - 1) : closeLens[k] = 0
               IN j + closeLens[j] - i
          ELSE 0]

\* removeGutenbergHeaders
RemoveGutenbergHeaders(text) ==
  \* lines 94-109: the markers, one after the other
  LET Markers(textIn) ==
        \* lines 95 and 96: /\*\*\*\s*START OF .*?\*\*\*/i, and with END OF
        LET RemoveStarMarker(s, phrase) ==
              LET StarsThen(i) ==
                    LET space == RunLength(s, i + 3, WhiteSpace)
                    IN IF /\ PhraseAt(s, i, <<"*", "*", "*">>)
                          /\ PhraseAt(s, i + 3 + space, phrase)
                         THEN 3 + space + Len(phrase)
                         ELSE 0
              IN ReplaceFirst(s, Between(s, [i \in 1..Len(s) |-> StarsThen(i)],
                                         PhraseLens(s, <<"*", "*", "*">>)), <<>>)
            \* lines 97-99: /opening.*?closing/i
            RemoveMarker(s, opening, closing) ==
              ReplaceFirst(s, Between(s, PhraseLens(s, opening), PhraseLens(s, closing)),
                           <<>>)
            \* lines 100-103: /opening.*?\n/gi
            RemoveMarkerLines(s, opening) ==
              ReplaceFrom(s, 1, Between(s, PhraseLens(s, opening),
                                        PhraseLens(s, <<"\n">>)), <<>>)
        IN RemoveMarkerLines(
            RemoveMarkerLines(
             RemoveMarkerLines(
              RemoveMarkerLines(
               RemoveMarker(
                RemoveMarker(
                 RemoveMarker(
                  RemoveStarMarker(
                   RemoveStarMarker(textIn,
                     <<"s", "t", "a", "r", "t", " ", "o", "f", " ">>),
                   <<"e", "n", "d", " ", "o", "f", " ">>),
                  <<"*", "*", "*", " ", "s", "t", "a", "r", "t", " ", "o", "f", " ", "t", "h",
                    "i", "s", " ", "p", "r", "o", "j", "e", "c", "t", " ", "g", "u",
                    "t", "e", "n", "b", "e", "r", "g">>,
                  <<"*", "*", "*">>),
                 <<"*", "*", "*", " ", "e", "n", "d", " ", "o", "f", " ", "t", "h", "i", "s",
                   " ", "p", "r", "o", "j", "e", "c", "t", " ", "g", "u", "t", "e",
                   "n", "b", "e", "r", "g">>,
                 <<"*", "*", "*">>),
                <<"p", "r", "o", "d", "u", "c", "e", "d", " ", "b", "y">>,
                <<"g", "u", "t", "e", "n", "b", "e", "r", "g">>),
               <<"p", "r", "o", "j", "e", "c", "t", " ", "g", "u", "t", "e", "n", "b", "e",
                 "r", "g", "'", "s">>),
              <<"t", "h", "i", "s", " ", "e", "b", "o", "o", "k", " ", "i", "s", " ", "f",
                "o", "r", " ", "t", "h", "e", " ", "u", "s", "e", " ", "o", "f", " ",
                "a", "n", "y", "o", "n", "e", " ", "a", "n", "y", "w", "h", "e", "r",
                "e">>),
             <<"c", "r", "e", "a", "t", "e", "d", " ", "b", "y", " ", "j", "u", "d", "i",
               "t", "h", " ", "b", "o", "s", "s">>),
            <<"t", "h", "e", " ", "m", "i", "l", "l", "e", "n", "n", "i", "u", "m", " ",
              "f", "u", "l", "c", "r", "u", "m", " ", "e", "d", "i", "t", "i", "o", "n">>)
      \* lines 127-131: the text from the story beginning or from the first line of
      \* content on
      DropFrontMatter(s) ==
        \* lines 113-123: the start of the first line that is longer than 50
        \* characters once trimmed and starts with no word of the metadata, 1 when
        \* there is none
        LET StartIndex(sIn) ==
              LET metadata ==
                    <<<<"p", "r", "o", "d", "u", "c", "e", "d">>,
                      <<"c", "r", "e", "a", "t", "e", "d">>,
                      <<"p", "r", "o", "j", "e", "c", "t">>,
                      <<"g", "u", "t", "e", "n", "b", "e", "r", "g">>,
                      <<"i", "s", "b", "n">>,
                      <<"t", "i", "t", "l", "e">>,
                      <<"a", "u", "t", "h", "o", "r">>,
                      <<"e", "d", "i", "t", "i", "o", "n">>>>
                  lineStarts == {1} \cup {i + 1 : i \in {j \in 1..Len(sIn) : sIn[j] = "\n"}}
                  StartsContent(p) ==
                    LET line == Trim(SubSeq(sIn, p, p + RunLengthNot(sIn, p, {"\n"}) - 1))
                    IN /\ Len(line) > 50
                       /\ \A k \in 1..Len(metadata) : ~PhraseAt(line, 1, metadata[k])
              IN IF \E p \in lineStarts : StartsContent(p)
                   THEN CHOOSE p \in lineStarts :
                          /\ StartsContent(p)
                          /\ \A q \in lineStarts : q < p => ~StartsContent(q)
                   ELSE 1
            \* line 126: cleanText.search(...), counted from 1, and 0 without a match
            ContentStart(sIn) ==
              LET beginnings ==
                    <<<<"a", "l", "i", "c", "e", " ", "w", "a", "s", " ", "b", "e", "g", "i", "n",
                        "n", "i", "n", "g">>,
                      <<"t", "o", "m">>,
                      <<"m", "o", "s", "t", " ", "o", "f", " ", "t", "h", "e", " ", "a", "d", "v",
                        "e", "n", "t", "u", "r", "e", "s">>,
                      <<"w", "h", "e", "n", " ", "o", "n", " ", "b", "o", "a", "r", "d">>>>
                  StoryAt(j) == \E k \in 1..Len(beginnings) : PhraseAt(sIn, j, beginnings[k])
              IN IF \E j \in 1..Len(sIn) : StoryAt(j)
                   THEN CHOOSE j \in 1..Len(sIn) :
                          StoryAt(j) /\ \A k \in 1..(j - 1) : ~StoryAt(k)
                   ELSE 0
        IN IF ContentStart(s) > 1 THEN SubSeq(s, ContentStart(s), Len(s))
           ELSE IF StartIndex(s) > 1 THEN SubSeq(s, StartIndex(s), Len(s))
           ELSE s
  IN Trim(DropFrontMatter(Markers(text)))

\* the place of the last line break of the white space that starts at s[i],
\* 0 when it holds none
LastBreak(s, i) ==
  LET breaks == {j \in i..(i + RunLength(s, i, WhiteSpace) - 1) : s[j] = "\n"}
  IN IF breaks = {} THEN 0
     ELSE CHOOSE j \in breaks : \A k \in breaks : k <= j

\* cleanBookText; the numerals of line 77 are [IVXLCDM\d] under the i flag
CleanBookText(rawText) ==
  \* line 61: text.replace(/\\\s*/g, '\n')
  LET LineBreaks(s) ==
        ReplaceFrom(s, 1, [i \in 1..Len(s) |->
                             IF s[i] = "\\" THEN 1 + RunLength(s, i + 1, WhiteSpace)
                             ELSE 0], <<"\n">>)
      \* line 64: text.replace(/\n\s*\n\s*\n/g, '\n\n'): a match goes from a line
      \* break to the last line break of the white space it starts, when that
      \* white space holds three of them or more
      BlankLines(s) ==
        LET BlankLinesMatch(i) ==
              IF s[i] = "\n"
                   /\ Cardinality({j \in i..(i + RunLength(s, i, WhiteSpace) - 1) :
                                     s[j] = "\n"}) >= 3
                THEN LastBreak(s, i) - i + 1
                ELSE 0
        IN ReplaceFrom(s, 1, [i \in 1..Len(s) |-> BlankLinesMatch(i)], <<"\n", "\n">>)
      \* line 65: text.replace(/[ \t]+/g, ' ')
      Blanks(s) ==
        Kept([i \in 1..Len(s) |->
                IF s[i] \notin {" ", "\t"} THEN s[i]
                ELSE IF StartsRun(s, i, {" ", "\t"}) THEN " " ELSE Removed])
      \* line 66: text.replace(/\n /g, '\n')
      LineIndents(s) ==
        ReplaceFrom(s, 1, [i \in 1..Len(s) |->
                             IF s[i] = "\n" /\ i < Len(s) /\ s[i + 1] = " " THEN 2
                             ELSE 0], <<"\n">>)
      \* line 72: text.replace(/\*\s*\*\s*\*.*?\*\s*\*\s*\*/g, '')
      AsteriskSeparators(s) ==
        LET SpacedStars(i) ==
              LET second == i + 1 + RunLength(s, i + 1, WhiteSpace)
                  third == second + 1 + RunLength(s, second + 1, WhiteSpace)
              IN IF /\ third <= Len(s)
                    /\ s[i] = "*" /\ s[second] = "*" /\ s[third] = "*"
                   THEN third - i + 1
                   ELSE 0
        IN ReplaceFrom(s, 1, Between(s, [i \in 1..Len(s) |-> SpacedStars(i)],
                                     [i \in 1..Len(s) |-> SpacedStars(i)]), <<>>)
      \* lines 73 and 74: text.replace(/c{3,}/g, '')
      Separators(s, c) ==
        ReplaceFrom(s, 1, [i \in 1..Len(s) |->
                             IF RunLength(s, i, {c}) >= 3 THEN RunLength(s, i, {c})
                             ELSE 0], <<>>)
      \* lines 77 and 78: text.replace(/\n\s*chapter\s+[numerals]+\s*\n/gi, '\n\n'):
      \* a match ends at the last line break of the white space after the numerals
      ChapterNumbers(s, numerals) ==
        LET ChapterMatch(i) ==
              LET word == i + 1 + RunLength(s, i + 1, WhiteSpace)
                  space == RunLength(s, word + 7, WhiteSpace)
                  number == RunLength(s, word + 7 + space, numerals)
                  after == word + 7 + space + number
              IN IF /\ s[i] = "\n"
                    /\ PhraseAt(s, word, <<"c", "h", "a", "p", "t", "e", "r">>)
                    /\ space > 0
                    /\ number > 0
                    /\ LastBreak(s, after) > 0
                   THEN LastBreak(s, after) - i + 1
                   ELSE 0
        IN ReplaceFrom(s, 1, [i \in 1..Len(s) |-> ChapterMatch(i)], <<"\n", "\n">>)
      \* line 81: text.replace(/\n{3,}/g, '\n\n')
      LineBreakRuns(s) ==
        ReplaceFrom(s, 1, [i \in 1..Len(s) |->
                             IF RunLength(s, i, {"\n"}) >= 3
                               THEN RunLength(s, i, {"\n"})
                               ELSE 0], <<"\n", "\n">>)
  IN Trim(
       LineBreakRuns(
         ChapterNumbers(
           ChapterNumbers(
             Separators(
               Separators(
                 AsteriskSeparators(
                   RemoveGutenbergHeaders(
                     LineIndents(Blanks(BlankLines(LineBreaks(rawText)))))),
                 "_"),
               "-"),
             {"I", "V", "X", "L", "C", "D", "M", "i", "v", "x", "l", "c", "d",
              "m"} \cup Digit),
           Digit)))

\* ------------------------------------------------------------ book processing

\* pieces of book text: a plain sentence, capitals with brackets and an
\* exclamation mark, quotes with a doubled period, a piece without an end,
\* boilerplate after asterisks, a sentence of more than 50 characters with a
\* number, and more than 120 characters without a period; the pieces after
\* the first two start a paragraph
Tokens ==
  <<
    <<"T", "h", "e", " ", "c", "a", "t", " ", "s", "a", "t", " ", "o", "n",
      " ", "t", "h", "e", " ", "m", "a", "t", ".", " ">>,
    <<"A", " ", "B", "i", "g", " ", "D", "o", "g", " ", "r", "a", "n", " ",
      "t", "o", " ", "h", "i", "m", " ", "(", "f", "a", "s", "t", ")", "!",
      " ">>,
    <<"\n", "\n", "T", "o", "m", "'", "s", " ", "\"", "r", "e", "d", "\"",
      " ", "h", "e", "n", ";", " ", "i", "t", " ", "i", "s", " ", "h", "e",
      "r", "e", ".", ".", " ">>,
    <<"N", "o", "w", " ", "w", "e", " ", "a", "l", "l", " ", "g", "o">>,
    <<"\n", "\n", "*", "*", "*", " ", "[", "n", "o", "t", "e", "]", " ", "T",
      "h", "e", " ", "e", "b", "o", "o", "k", " ", "e", "d", "i", "t", "i",
      "o", "n", ",", " ", "1", "6", "3", "2", ".", " ">>,
    <<"\n", "\n", "T", "h", "e", " ", "r", "e", "d", " ", "h", "e", "n", " ",
      "h", "a", "d", " ", "1", "6", "3", " ", "e", "g", "g", "s", " ", "a",
      "n", "d", " ", "t", "h", "e", " ", "c", "a", "t", " ", "s", "a", "t",
      " ", "o", "n", " ", "t", "h", "e", "m", " ", "a", "l", "l", ".", " ">>,
    <<"\n", "\n", "S", "t", "r", "o", "l", "l", "s", ",", " ", "s", "c", "r",
      "a", "t", "c", "h", ",", " ", "s", "p", "r", "a", "w", "l", "s", ",",
      " ", "t", "h", "r", "i", "l", "l", "s", ",", " ", "s", "h", "r", "i",
      "n", "k", "s", ",", " ", "s", "q", "u", "i", "n", "t", "s", ",", " ",
      "s", "t", "r", "i", "n", "g", "s", ",", " ", "s", "p", "r", "i", "n",
      "g", "s", ",", " ", "s", "t", "r", "a", "n", "d", "s", ",", " ", "s",
      "t", "r", "e", "t", "c", "h", ",", " ", "s", "c", "r", "o", "l", "l",
      "s", ",", " ", "t", "h", "r", "u", "s", "t", "s", ",", " ", "s", "h",
      "r", "i", "m", "p", "s", ",", " ", "s", "p", "l", "i", "n", "t", "s",
      " ">>
  >>

RECURSIVE Join(_)
Join(pieces) == IF Len(pieces) = 0 THEN <<>> ELSE Head(pieces) \o Join(Tail(pieces))

\* the raw texts loadRawBook may hand to processBook
RawTexts ==
  {Join([k \in 1..Len(choice) |-> Tokens[choice[k]]]) :
     choice \in UNION {[1..n -> 1..Len(Tokens)] : n \in 1..MaxTokens}}

\* the configured books, one per difficulty and identified by it; targetGrade
\* is held in tenths
BookCfgs ==
  {[id |-> "beginner", difficulty |-> "beginner", passageLength |-> <<20, 130>>,
    targetGrade |-> 10],
   [id |-> "intermediate", difficulty |-> "intermediate",
    passageLength |-> <<20, 70>>, targetGrade |-> 20],
   [id |-> "expert", difficulty |-> "expert", passageLength |-> <<20, 60>>,
    targetGrade |-> 10]}

\* a length test that has no upper limit
LengthAtLeast(length, minLength, maxLength) == length >= minLength

\* line 40: candidate.length < minLength || candidate.length > maxLength
LengthInRange(length, minLength, maxLength) ==
  ~(length < minLength \/ length > maxLength)

\* a grade test that every grade passes
GradeAny(grade, targetGrade) == TRUE

\* lines 53 and 56: Math.abs(analysis.grade - targetGrade) <= 1.5, in tenths
GradeClose(grade, targetGrade) ==
  (IF grade >= targetGrade THEN grade - targetGrade ELSE targetGrade - grade)
    <= 15

\* a set of fingerprints that answers no to every question
HasNone(usedFingerprints, fingerprint) == FALSE

\* line 49: usedFingerprints.has(fingerprint)
Has(usedFingerprints, fingerprint) == fingerprint \in usedFingerprints

\* lines 40-56: what becomes of a candidate
Fate(candidate, usedFingerprints, bookCfg) ==
  IF ~LengthInRange(Len(candidate), bookCfg.passageLength[1],
                    bookCfg.passageLength[2]) THEN "length"
  ELSE IF ~IsCharacterSetValid(candidate, bookCfg.difficulty) THEN "characters"
  ELSE IF Has(usedFingerprints, CreateFingerprint(candidate)) THEN "fingerprint"
  ELSE IF ~GradeClose(Analyze(candidate).grade, bookCfg.targetGrade) THEN "grade"
  ELSE IF ~IsPassageSuitableForDifficulty(candidate, bookCfg.difficulty)
    THEN "suitability"
  ELSE "accepted"

\* lines 57-65: the object pushed for the n-th accepted candidate
NewPassage(candidate, bookCfg, n) ==
  [id |-> PassageId(bookCfg.id, n),
   text |-> candidate,
   grade |-> Analyze(candidate).grade,
   ease |-> Analyze(candidate).ease,
   fingerprint |-> CreateFingerprint(candidate),
   length |-> Len(candidate),
   wordCount |-> SplitWordCount(candidate)]

\* a set of fingerprints that takes the fingerprint of every candidate
AddedAlways(fate, usedFingerprints, fingerprint) ==
  usedFingerprints \cup {fingerprint}

\* line 67: usedFingerprints.add(fingerprint), reached by accepted candidates
Added(fate, usedFingerprints, fingerprint) ==
  IF fate = "accepted" THEN usedFingerprints \cup {fingerprint}
  ELSE usedFingerprints

\* lines 18 and 21, with the observer `examined`: every candidate met so far,
\* what became of it and the paragraph it was made from
\* and the observer `started`: the paragraphs whose candidates were asked for
NoPassages ==
  [passages |-> <<>>, usedFingerprints |-> {}, examined |-> <<>>, started |-> 0]

\* a cap that is never reached
CapNever(passages, cap) == FALSE

\* lines 70 and 74: passages.length >= 500, with the cap as a parameter
CapReached(passages, cap) == Len(passages) >= cap

\* lines 39-72: the loop over the candidates of one paragraph.  The loop is
\* left as soon as the cap is reached, so each pass starts below the cap.
RECURSIVE ExamineCandidates(_, _, _, _, _)
ExamineCandidates(candidatePassages, k, acc, bookCfg, cap) ==
  IF k > Len(candidatePassages) \/ CapReached(acc.passages, cap) THEN acc
  ELSE LET candidate == candidatePassages[k]
           fate == Fate(candidate, acc.usedFingerprints, bookCfg)
           seen == Append(acc.examined,
                          [candidate |-> candidate, fate |-> fate,
                           paragraph |-> acc.started])
       IN ExamineCandidates(candidatePassages, k + 1,
            [passages |->
               IF fate = "accepted"
                 THEN Append(acc.passages,
                             NewPassage(candidate, bookCfg, Len(acc.passages)))
                 ELSE acc.passages,
             usedFingerprints |->
               Added(fate, acc.usedFingerprints, CreateFingerprint(candidate)),
             examined |-> seen,
             started |-> acc.started],
            bookCfg, cap)

\* lines 27-75: the loop over the paragraphs
RECURSIVE ExamineParagraphs(_, _, _, _, _)
ExamineParagraphs(paragraphs, i, acc, bookCfg, cap) ==
  IF i > Len(paragraphs) \/ CapReached(acc.passages, cap) THEN acc
  ELSE ExamineParagraphs(paragraphs, i + 1,
         ExamineCandidates(
           GenerateCandidatePassages(paragraphs, i, bookCfg.passageLength[1],
                                     bookCfg.passageLength[2], bookCfg.difficulty),
           1, [acc EXCEPT !.started = i], bookCfg, cap),
         bookCfg, cap)

\* lines 80-86
ValidatedPassages(passages, bookCfg) ==
  SelectSeq(passages, LAMBDA p : IsCharacterSetValid(p.text, bookCfg.difficulty))

\* processBook before its call
NoBookCall ==
  [pc |-> "idle", rawText |-> <<>>, difficulty |-> "none",
   passageLength |-> <<0, 0>>, targetGrade |-> 0, cap |-> 0, examined |-> <<>>,
   started |-> 0, result |-> <<>>]

\* processBook up to `await storePassages(...)`, which it runs up to the
\* creation of the transaction.  The cap of lines 70 and 74 is a parameter:
\* PassageCap, or MaxAccepted where the cap is to be reached.
ProcessBookBegin(rawText, bookCfg, cap) ==
  /\ \E done \in {ExamineParagraphs(Paragraphs(rawText), 1, NoPassages,
                                      bookCfg, cap)} :
     LET validatedPassages == ValidatedPassages(done.passages, bookCfg)
     IN /\ bookCall' = [pc |-> "storePassages", rawText |-> rawText,
                        difficulty |-> bookCfg.difficulty,
                        passageLength |-> bookCfg.passageLength,
                        targetGrade |-> bookCfg.targetGrade,
                        cap |-> cap,
                        examined |-> done.examined,
                        started |-> done.started,
                        result |-> validatedPassages]
        /\ StoreBegin(bookCfg.difficulty, Range(validatedPassages))

\* processBook called on its own.  loadAllBooks processes a book only while
\* the store of its difficulty is empty; one call is followed.
ProcessBookCall(rawText, bookCfg, cap) ==
  /\ bookCall.pc = "idle"
  /\ db[bookCfg.difficulty] = {}
  /\ ProcessBookBegin(rawText, bookCfg, cap)
  /\ UNCHANGED <<engineVars, selectorVars, analyzeCall, appVars>>

\* storePassages has resolved: processBook returns validatedPassages
ProcessBookReturn ==
  /\ bookCall.pc = "storePassages"
  /\ storeCall.pc = "done"
  /\ bookCall' = [bookCall EXCEPT !.pc = "returned"]
  /\ UNCHANGED <<db, storeVars, engineVars, selectorVars, analyzeCall, appVars>>

\* no call of analyze yet
NoAnalyzeCall ==
  [called |-> FALSE, text |-> <<>>, result |-> [grade |-> 0, ease |-> 0]]

\* analyze(text), called on its own with the text in hand
AnalyzeCall ==
  /\ ~analyzeCall.called
  /\ analyzeCall' = [analyzeCall EXCEPT !.called = TRUE,
                                        !.result = Analyze(analyzeCall.text)]
  /\ UNCHANGED <<engineVars, db, selectorVars, storeVars, bookCall, appVars>>

InitBook == bookCall = NoBookCall

InitAnalyzer == analyzeCall = NoAnalyzeCall

\* a text is in hand for analyze
InitAnalyzeText ==
  \* the texts given to analyze: every text of up to MaxAnalyzed characters
  \* of white space, two vowels, a consonant, a terminator and a digit
  LET AnalyzeTexts ==
        UNION {[1..n -> {" ", "\n", "\t", "a", "e", "l", ".", "1"}] :
                 n \in 0..MaxAnalyzed}
  IN \E text \in AnalyzeTexts : analyzeCall = [NoAnalyzeCall EXCEPT !.text = text]

NextProcess ==
  \/ \E rawText \in RawTexts : \E bookCfg \in BookCfgs :
       ProcessBookCall(rawText, bookCfg, PassageCap)
  \/ StoreClear
  \/ StorePut
  \/ StoreDone
  \/ ProcessBookReturn

\* book processing with the cap scaled down to MaxAccepted
NextCap ==
  \/ \E rawText \in RawTexts : \E bookCfg \in BookCfgs :
       ProcessBookCall(rawText, bookCfg, MaxAccepted)
  \/ StoreClear
  \/ StorePut
  \/ StoreDone
  \/ ProcessBookReturn

\* lines 31-37 of loadRawBook: the texts it hands to processBook after a
\* fetch.  A book file is what stands before the first body paragraph, with
\* and without a chapter heading, and a body: short lines, a line of more
\* than 50 characters, a second chapter, and another book
LoadedTexts ==
  LET fronts ==
        <<<<>>,
          <<"C", "H", "A", "P", "T", "E", "R", " ", "I", "\n", "\n">>,
          <<"\n", "C", "H", "A", "P", "T", "E", "R", " ", "I", " ", "\n", "\n", "\n">>,
          <<"P", "r", "e", "f", "a", "c", "e", ".", "\n", "\n", "C", "H", "A", "P",
            "T", "E", "R", " ", "I", "\n", "\n">>,
          <<"*", "*", "*", " ", "S", "T", "A", "R", "T", " ", "O", "F", " ", "T", "H",
            "I", "S", " ", "P", "R", "O", "J", "E", "C", "T", " ", "G", "U",
            "T", "E", "N", "B", "E", "R", "G", " ", "E", "B", "O", "O", "K",
            " ", "*", "*", "*", "\n", "C", "H", "A", "P", "T", "E", "R", " ",
            "I", "\n", "\n">>>>
      bodies ==
        <<<<"R", "o", "b", "i", "n", "s", "o", "n", " ", "C", "r", "u", "s", "o", "e",
            " ", "w", "a", "s", " ", "b", "o", "r", "n", " ", "i", "n", " ",
            "1", "6", "3", "2", ".", "\n", "H", "e", " ", "w", "e", "n", "t",
            " ", "t", "o", " ", "s", "e", "a", ".", " ">>,
          <<"R", "o", "b", "i", "n", "s", "o", "n", " ", "C", "r", "u", "s", "o", "e",
            " ", "w", "a", "s", " ", "b", "o", "r", "n", " ", "i", "n", " ",
            "1", "6", "3", "2", ",", " ", "i", "n", " ", "t", "h", "e", " ",
            "c", "i", "t", "y", " ", "o", "f", " ", "Y", "o", "r", "k", ",",
            " ", "o", "f", " ", "a", " ", "g", "o", "o", "d", " ", "f", "a",
            "m", "i", "l", "y", ".">>,
          <<"R", "o", "b", "i", "n", "s", "o", "n", " ", "C", "r", "u", "s", "o", "e",
            " ", "w", "a", "s", " ", "b", "o", "r", "n", " ", "i", "n", " ",
            "1", "6", "3", "2", ".", " ", "\n", "\n", "C", "H", "A", "P",
            "T", "E", "R", " ", "I", "I", "\n", "\n", "H", "e", " ", "w",
            "a", "s", " ", "a", "t", " ", "s", "e", "a", " ", "a", " ", "l",
            "o", "n", "g", " ", "t", "i", "m", "e", ".", "\n">>,
          <<"T", "h", "e", " ", "c", "a", "t", " ", "s", "a", "t", " ", "o", "n", " ",
            "t", "h", "e", " ", "m", "a", "t", ".", "\n", "\n", "N", "o",
            "w", " ", "w", "e", " ", "a", "l", "l", " ", "g", "o", " ", "t",
            "o", " ", "s", "e", "a", ".">>>>
  IN {CleanBookText(fronts[f] \o bodies[b]) :
        f \in 1..Len(fronts), b \in 1..Len(bodies)}

\* book processing of the texts of the loader
NextLoaded ==
  \/ \E rawText \in LoadedTexts : \E bookCfg \in BookCfgs :
       ProcessBookCall(rawText, bookCfg, PassageCap)
  \/ StoreClear
  \/ StorePut
  \/ StoreDone
  \/ ProcessBookReturn

NextAnalyze == AnalyzeCall

\* ------------------------------------------------------ loading of the books

\* no record of a book in the rawBooks store
NoRawBook == [present |-> FALSE, content |-> <<>>, timestamp |-> 0]

\* isRawBookFresh
IsRawBookFresh(book, time, maxAgeMs) ==
  book.present /\ time - book.timestamp < maxAgeMs

\* loadRawBook with the record of the book, Date.now(), the validity of the
\* cache and what fetch gives: whether it throws, the text it returns and the
\* record it leaves
LoadRawBook(book, time, maxAgeMs, response) ==
  IF IsRawBookFresh(book, time, maxAgeMs)
    THEN [threw |-> FALSE, text |-> book.content, cached |-> book, by |-> "fresh"]
  ELSE IF response.status = "ok"
    THEN LET cleanText == CleanBookText(response.text)
         IN [threw |-> FALSE, text |-> cleanText,
             cached |-> [present |-> TRUE, content |-> cleanText,
                         timestamp |-> time],
             by |-> "fetched"]
  ELSE IF book.present
    THEN [threw |-> FALSE, text |-> book.content, cached |-> book, by |-> "stale"]
  ELSE [threw |-> TRUE, text |-> <<>>, cached |-> book, by |-> "error"]

\* the file of a book as the server may give it: two paragraphs
BookFiles == {Tokens[1] \o Tokens[4] \o Tokens[6]}

\* what fetch(bookCfg.file) gives: a response that is ok, one that is not,
\* and a rejection
Responses ==
  {[status |-> "ok", text |-> file] : file \in BookFiles}
    \cup {[status |-> "notOk", text |-> <<>>], [status |-> "rejected", text |-> <<>>]}

\* config.books: one book per difficulty
Books ==
  [i \in 1..3 |->
     CHOOSE b \in BookCfgs :
       b.difficulty = <<"beginner", "intermediate", "expert">>[i]]

\* loadAllBooks before its loop
NoLoadAll ==
  [pc |-> "idle", i |-> 1, maxAgeMs |-> 0, by |-> [i \in 1..Len(Books) |-> "none"]]

\* initApp up to the loop of loadAllBooks, with config.cacheValidityDays as
\* the validity of the cache
InitApp(maxAgeMs) ==
  /\ loadAll.pc = "idle"
  /\ loadAll' = [loadAll EXCEPT !.pc = "loop", !.maxAgeMs = maxAgeMs]
  /\ UNCHANGED <<engineVars, db, selectorVars, storeVars, processVars, rawBooks,
                 isInitialized, remoteVars, mainVars>>

\* one pass of the loop of loadAllBooks up to the call of storePassages in
\* processBook, or to the end of the pass when that call is not reached
LoadBook(response) ==
  /\ loadAll.pc = "loop"
  /\ loadAll.i <= Len(Books)
  /\ LET book == Books[loadAll.i]
     IN IF db[book.difficulty] # {}
          THEN /\ loadAll' = [loadAll EXCEPT !.i = @ + 1, !.by[loadAll.i] = "skipped"]
               /\ UNCHANGED <<rawBooks, db, storeVars, bookCall>>
          ELSE \E r \in {LoadRawBook(rawBooks[book.id], now, loadAll.maxAgeMs,
                                     response)} :
                 /\ rawBooks' = [rawBooks EXCEPT ![book.id] = r.cached]
                 /\ IF r.threw
                      THEN /\ loadAll' = [loadAll EXCEPT !.i = @ + 1,
                                                         !.by[loadAll.i] = r.by]
                           /\ UNCHANGED <<db, storeVars, bookCall>>
                      ELSE /\ ProcessBookBegin(r.text, book, PassageCap)
                           /\ loadAll' = [loadAll EXCEPT !.pc = "processBook",
                                                         !.by[loadAll.i] = r.by]
  /\ UNCHANGED <<engineVars, selectorVars, analyzeCall, isInitialized, remoteVars, mainVars>>

\* storePassages has resolved: processBook returns and the pass ends
LoadBookProcessed ==
  /\ loadAll.pc = "processBook"
  /\ storeCall.pc = "done"
  /\ bookCall' = [bookCall EXCEPT !.pc = "returned"]
  /\ loadAll' = [loadAll EXCEPT !.pc = "loop", !.i = @ + 1]
  /\ UNCHANGED <<engineVars, db, selectorVars, storeVars, analyzeCall, rawBooks,
                 isInitialized, remoteVars, mainVars>>

\* loadAllBooks returns after the last book: showMainApp() and
\* appState.isInitialized = true
ShowMainApp ==
  /\ loadAll.pc = "loop"
  /\ loadAll.i > Len(Books)
  /\ loadAll' = [loadAll EXCEPT !.pc = "done"]
  /\ isInitialized' = TRUE
  /\ UNCHANGED <<engineVars, db, selectorVars, storeVars, processVars, rawBooks,
                 remoteVars, mainVars>>

\* nothing of the application has run
InitLoader ==
  /\ rawBooks = [id \in Difficulties |-> NoRawBook]
  /\ loadAll = NoLoadAll
  /\ isInitialized = FALSE

NextBooks ==
  \/ \E maxAgeMs \in 1..MaxTime : InitApp(maxAgeMs)
  \/ \E response \in Responses : LoadBook(response)
  \/ StoreClear
  \/ StorePut
  \/ StoreDone
  \/ LoadBookProcessed
  \/ ShowMainApp
  \/ AdvanceClock

\* ---------------------------------------------------- remote passage service

\* the getPassage calls
CallIds == 1..MaxCalls

\* cacheConfig, lines 10-14, with maxAge in units of 300000 ms: the step of
\* the clock in the runs of the service
CacheConfig ==
  [beginner |-> [maxAge |-> 1, maxCount |-> 20],
   intermediate |-> [maxAge |-> 2, maxCount |-> 15],
   expert |-> [maxAge |-> 3, maxCount |-> 10]]

\* what may become of the fetch of fetchFromAPI: fetch rejects, the content
\* type is not JSON, the status is not ok, response.json() rejects, success
\* is false, passages is missing or empty, passages[0] is null, has no
\* difficulty or has no text, and a passage as the API describes it
ApiOutcomes ==
  {"networkError", "nonJson", "notOk", "badJson", "successFalse", "noPassages",
   "emptyPassages", "nullPassage", "noDifficulty", "noText", "ok"}

\* a getPassage call that was not made.  An object is named after what made
\* it: the fetchFromAPI or the getFallbackPassage of a call, or a prefetch with
\* the number of the passage.
NoCall ==
  [d |-> "none", state |-> "idle", on |-> 0, outcome |-> "none", by |-> "none",
   result |-> [obj |-> <<"none", 0>>, difficulty |-> "none", kind |-> "none",
               cachedAt |-> 0]]

\* cachePassage, up to the read of config.maxCount, which throws for a passage
\* whose difficulty has no configuration
CachePassage(held, passage, time) ==
  LET key == IF passage.difficulty \in Difficulties THEN passage.difficulty
             ELSE "undefined"
      pushed == Append(held[key], [passage EXCEPT !.cachedAt = time])
  IN [held EXCEPT ![key] =
        IF key \in Difficulties /\ Len(pushed) > CacheConfig[key].maxCount
          THEN SubSeq(pushed, Len(pushed) - CacheConfig[key].maxCount + 1,
                      Len(pushed))
          ELSE pushed]

\* a queue that never holds a request
QueueNeverHas(queue, d) == FALSE

\* line 32: this.requestQueue.has(difficulty)
QueueHas(queue, d) == queue[d] # 0

\* a request that stays in the queue when it fails
DeletedOnSuccess(queue, d, failed) ==
  IF failed THEN queue ELSE [queue EXCEPT ![d] = 0]

\* lines 43 and 46: this.requestQueue.delete(difficulty)
Deleted(queue, d, failed) == [queue EXCEPT ![d] = 0]

\* getPassage up to its first await, or to its return when the cache has a
\* passage: lines 24-39 with getCachedPassage.  The calls are numbered in the
\* order in which they are made.
GetPassage(c, d) ==
  /\ calls[c].state = "idle"
  /\ \A k \in 1..(c - 1) : calls[k].state # "idle"
  /\ LET \* lines 118-125: the passages of the key that are not expired
         fresh == SelectSeq(cache[d],
                            LAMBDA p : now - p.cachedAt < CacheConfig[d].maxAge)
     IN IF fresh # <<>>
          THEN \E i \in 1..Len(fresh) :
                 /\ cache' = [cache EXCEPT ![d] =
                                SubSeq(fresh, 1, i - 1)
                                  \o SubSeq(fresh, i + 1, Len(fresh))]
                 /\ calls' = [calls EXCEPT ![c] =
                                [NoCall EXCEPT !.d = d, !.state = "resolved",
                                               !.by = "cache", !.result = fresh[i]]]
                 /\ UNCHANGED <<requestQueue, fetches>>
          ELSE /\ cache' = [cache EXCEPT ![d] = <<>>]
               /\ IF QueueHas(requestQueue, d)
                    THEN /\ calls' = [calls EXCEPT ![c] =
                                        [NoCall EXCEPT !.d = d, !.state = "waiting",
                                                       !.on = requestQueue[d],
                                                       !.by = "joined"]]
                         /\ UNCHANGED <<requestQueue, fetches>>
                    ELSE /\ calls' = [calls EXCEPT ![c] =
                                        [NoCall EXCEPT !.d = d, !.state = "waiting",
                                                       !.on = c, !.by = "fetch"]]
                         /\ requestQueue' = [requestQueue EXCEPT ![d] = c]
                         /\ fetches' = fetches \cup {c}
  /\ UNCHANGED <<prefetches, served, engineVars, db, selectorVars, storeVars,
                 processVars, loaderVars, mainVars>>

\* the fetchFromAPI that call c started settles, lines 67-104, and the calls
\* that await it go on, lines 33 and 41-54: the call that started it first.
\* A call whose await throws returns getFallbackPassage(difficulty), an
\* object of its own.
FetchSettle(c, outcome) ==
  /\ c \in fetches
  /\ LET d == calls[c].d
         passage == [obj |-> <<"fetched", c>>,
                     difficulty |-> IF outcome = "noDifficulty" THEN "undefined"
                                    ELSE d,
                     kind |-> IF outcome = "ok" THEN "passage" ELSE outcome,
                     cachedAt |-> now]
         returned == outcome \in {"ok", "noText"}
         held == IF outcome \in {"ok", "noText", "noDifficulty"}
                   THEN CachePassage(cache, passage, now) ELSE cache
         waiting == {j \in CallIds : calls[j].state = "waiting" /\ calls[j].on = c}
         Fallback(j) ==
           [obj |-> <<"fallback", j>>, difficulty |-> d, kind |-> "fallback",
            cachedAt |-> 0]
     IN /\ cache' = held
        /\ prefetches' = IF returned /\ Len(held[d]) < 5
                           THEN [prefetches EXCEPT ![d] = @ + 1] ELSE prefetches
        /\ fetches' = fetches \ {c}
        /\ requestQueue' = Deleted(requestQueue, d, ~returned)
        /\ calls' = [j \in CallIds |->
                       IF j \in waiting
                         THEN [calls[j] EXCEPT
                                 !.state = "resolved", !.outcome = outcome,
                                 !.result = IF returned THEN passage
                                            ELSE Fallback(j)]
                         ELSE calls[j]]
  /\ UNCHANGED <<served, engineVars, db, selectorVars, storeVars, processVars,
                 loaderVars, mainVars>>

\* a prefetch settles, lines 184-195: it caches the passages it brings, none
\* when it fails
PrefetchSettle(d, count) ==
  /\ prefetches[d] > 0
  /\ prefetches' = [prefetches EXCEPT ![d] = @ - 1]
  /\ LET pushed == cache[d] \o [k \in 1..count |->
                                  [obj |-> <<"prefetched", served + k>>,
                                   difficulty |-> d,
                                   kind |-> "passage", cachedAt |-> now]]
     IN cache' = [cache EXCEPT ![d] =
                    SubSeq(pushed,
                           IF Len(pushed) > CacheConfig[d].maxCount
                             THEN Len(pushed) - CacheConfig[d].maxCount + 1 ELSE 1,
                           Len(pushed))]
  /\ served' = served + count
  /\ UNCHANGED <<requestQueue, calls, fetches, engineVars, db, selectorVars,
                 storeVars, processVars, loaderVars, mainVars>>

\* the service as its constructor leaves it, lines 8-16
InitRemote ==
  /\ cache = [key \in Difficulties \cup {"undefined"} |-> <<>>]
  /\ requestQueue = [d \in Difficulties |-> 0]
  /\ calls = [c \in CallIds |-> NoCall]
  /\ fetches = {}
  /\ prefetches = [d \in Difficulties |-> 0]
  /\ served = 0

\* the calls ask for passages of two difficulties
NextRemote ==
  \/ \E c \in CallIds : \E d \in {"beginner", "intermediate"} : GetPassage(c, d)
  \/ \E c \in CallIds : \E outcome \in ApiOutcomes : FetchSettle(c, outcome)
  \/ \E d \in Difficulties : \E count \in 0..MaxPrefetched : PrefetchSettle(d, count)
  \/ AdvanceClock

\* --------------------------------------------------- main.js: the handlers

\* appState.currentDifficulty before a difficulty is selected
NoDifficulty == "none"

\* localStorage.getItem of a key that was never set
NoBest == [stored |-> FALSE]

\* the text field of the passage record that processBook stored
PassageText(passage) ==
  LET d == passage.id[1]
  IN IF d = "beginner" THEN <<"a", "a">>
     ELSE IF d = "intermediate" THEN <<"b", "b">>
     ELSE <<"a", "b">>

\* getPersonalBest: the parsed item, or null
GetPersonalBest(difficulty) ==
  LET stored == best[difficulty]
      Parse(item) == item.json
  IN IF stored.stored THEN Parse(stored) ELSE NoBest

\* savePersonalBest without the comparison with the stored best
SavePersonalBestAlways(difficulty, finalMetrics) ==
  IF difficulty = NoDifficulty \/ finalMetrics.netWPM <= 0
    THEN best
    ELSE [best EXCEPT ![difficulty] =
            [stored |-> TRUE,
             json |-> [netWPM |-> finalMetrics.netWPM,
                       grossWPM |-> finalMetrics.grossWPM,
                       accuracy |-> finalMetrics.accuracy,
                       timeElapsed |-> finalMetrics.timeElapsed,
                       date |-> now]]]

\* savePersonalBest: localStorage after the call. The await inside it is of a
\* value that is already there, so its continuation runs before any other
\* handler
SavePersonalBest(difficulty, finalMetrics) ==
  LET Stringify(bestData) == [stored |-> TRUE, json |-> bestData]
  IN IF difficulty = NoDifficulty \/ finalMetrics.netWPM <= 0
       THEN best
       ELSE LET currentBest == GetPersonalBest(difficulty)
            IN IF currentBest = NoBest \/ finalMetrics.netWPM > currentBest.netWPM
                 THEN [best EXCEPT ![difficulty] =
                         Stringify([netWPM |-> finalMetrics.netWPM,
                                    grossWPM |-> finalMetrics.grossWPM,
                                    accuracy |-> finalMetrics.accuracy,
                                    timeElapsed |-> finalMetrics.timeElapsed,
                                    date |-> now])]
                 ELSE best

\* loadNewPassage up to `await getRandom(appState.currentDifficulty)`, with
\* the difficulty it read
LoadNewPassage(d) ==
  /\ pendingRandom["beginner"] + pendingRandom["intermediate"]
       + pendingRandom["expert"] < MaxLoads
  /\ pendingRandom' = [pendingRandom EXCEPT ![d] = @ + 1]
  /\ lastById' = NoById
  /\ UNCHANGED <<usedPassages, lastResult, draws, pendingById>>

OnDifficultySelected(d) ==
  /\ currentDifficulty' = d
  /\ currentPassage' = NoPassage
  /\ ResetEngine
  /\ LoadNewPassage(d)
  /\ UNCHANGED <<best, db, storeVars, processVars, loaderVars, remoteVars>>

OnNewPassageRequest ==
  /\ currentDifficulty # NoDifficulty
  /\ ResetEngine
  /\ LoadNewPassage(currentDifficulty)
  /\ UNCHANGED <<currentDifficulty, currentPassage, best, db, storeVars,
                 processVars, loaderVars, remoteVars>>

\* the getRandom(d) of a loadNewPassage call returns and the call goes on
\* from its await: to the catch block when there is no passage
LoadNewPassageReturn(d) ==
  /\ pendingRandom[d] > 0
  /\ pendingRandom' = [pendingRandom EXCEPT ![d] = @ - 1]
  /\ GetRandomResolve(d)
  /\ lastById' = NoById
  /\ IF lastResult'.passage = NoPassage
       THEN UNCHANGED <<engineVars, currentPassage>>
       ELSE /\ currentPassage' = lastResult'.passage
            /\ SetTarget(PassageText(lastResult'.passage))
  /\ UNCHANGED <<pendingById, currentDifficulty, best, db, storeVars,
                 processVars, loaderVars, remoteVars>>

\* the input listener, with the engine's 'complete' listener when processInput
\* dispatches that event
OnUserInput(input) ==
  /\ currentPassage # NoPassage
  /\ Process(input)
  /\ best' = IF \E i \in DOMAIN emitted' : emitted'[i] = "complete"
               THEN SavePersonalBest(currentDifficulty, metrics')
               ELSE best
  /\ UNCHANGED <<currentDifficulty, currentPassage, db, selectorVars,
                 storeVars, processVars, loaderVars, remoteVars>>

InitAppState ==
  /\ currentDifficulty = NoDifficulty
  /\ currentPassage = NoPassage
  /\ best = [d \in Difficulties |-> NoBest]

NextMain ==
  \* the difficulties selected in a run, and the values of the type box
  LET Offered == {"beginner", "expert"}
      Typed == StrOfLen(0) \cup StrOfLen(1) \cup StrOfLen(2)
  IN \/ \E d \in Offered : OnDifficultySelected(d)
     \/ OnNewPassageRequest
     \/ \E d \in Difficulties : LoadNewPassageReturn(d)
     \/ \E input \in Typed : OnUserInput(input)
     \/ AdvanceClock

\* ------------------------------------------------- typing engine: properties

\* the last handler dispatched event e
Emitted(e) == \E i \in 1..Len(emitted) : emitted[i] = e

\* the fields of the engine are consistent with one phase
PhaseConsistent ==
  /\ (startTime = Null) = (Phase = "Idle")
  /\ (Phase = "Completed") = (endTime # Null)
  /\ (updateInterval # Null) => (isActive /\ updateInterval \in timers)

\* C1: in every reachable state at most one periodic timer is scheduled, and
\* none is scheduled while the phase is Idle or Completed (reset() and
\* setTargetText() cancel the timer).
C1_TimerCancelled ==
  /\ Cardinality(timers) <= 1
  /\ (Phase # "Active" => timers = {})

\* C2: in phase Completed, processInput leaves targetText, inputBuffer, both
\* timestamps and the phase unchanged and emits no event.
C2_CompletedNoOp ==
  [][(Phase = "Completed" /\ lastCall'.op = "processInput")
       => /\ UNCHANGED <<targetText, userInput, startTime, endTime, isActive>>
          /\ emitted' = <<>>]_vars

\* C3: processInput on an engine whose target text was not set keeps the
\* phase Idle, emits no start event and starts no timer, for every buffer.
C3_UnsetTargetNoOp ==
  [][(lastCall'.op = "processInput" /\ Phase = "Idle" /\ ~targetSet)
       => /\ Phase' = "Idle"
          /\ ~Emitted("start")'
          /\ timers' = timers]_vars

\* C4 as stated: every processInput of a session that is not yet Completed
\* whose buffer is as long as the target records endTimestamp, completes the
\* session, cancels the timer and emits 'complete', once per session.
C4_EqualLengthCompletes ==
  [][(lastCall'.op = "processInput" /\ Phase # "Completed"
        /\ Len(lastCall'.arg) = Len(targetText))
       => /\ endTime' = now
          /\ Phase' = "Completed"
          /\ updateInterval' = Null
          /\ timers' = timers \ {updateInterval}
          /\ Emitted("complete")'
          /\ completeCount' = 1]_vars

\* C4 amended: the same for a processInput made while the session is Active
\* or with a non-empty buffer; no other step emits 'complete', so it is
\* emitted at most once per session (an empty buffer on an Idle engine whose
\* target is empty completes nothing).
C4_CompletesOnce ==
  [][/\ (lastCall'.op = "processInput" /\ Phase # "Completed"
           /\ Len(lastCall'.arg) = Len(targetText)
           /\ (Phase = "Active" \/ Len(lastCall'.arg) > 0))
          => /\ endTime' = now
             /\ Phase' = "Completed"
             /\ updateInterval' = Null
             /\ timers' = timers \ {updateInterval}
             /\ Emitted("complete")'
             /\ completeCount' = 1
     /\ Emitted("complete")'
          => /\ lastCall'.op = "processInput"
             /\ Phase # "Completed"
             /\ Len(lastCall'.arg) = Len(targetText)
     /\ completeCount' <= 1
     /\ (Phase' = "Completed") = (completeCount' = 1)]_vars

C4_Witness ==
  /\ lastCall.op = "processInput"
  /\ lastCall.from = "Active"
  /\ Phase = "Completed"
  /\ Len(targetText) > 0
  /\ emitted = <<"complete">>
  /\ completeCount = 1

\* C7: in one session the first processInput with a non-empty buffer records
\* startTimestamp, emits one 'start' and starts the periodic timer; no other
\* processInput emits 'start' or changes startTimestamp.
C7_StartsOnce ==
  [][/\ lastCall'.op = "processInput"
          => IF Phase = "Idle" /\ Len(lastCall'.arg) > 0
               THEN /\ startTime' = now
                    /\ emitted'[1] = "start"
                    /\ startCount' = 1
                    /\ Phase' # "Idle"
                    /\ Phase' = "Active"
                         => (updateInterval' \in timers' /\ updateInterval' \notin timers)
               ELSE /\ startTime' = startTime
                    /\ ~Emitted("start")'
                    /\ startCount' = startCount
     /\ startCount' <= 1]_vars

C7_Witness ==
  /\ lastCall.op = "processInput"
  /\ lastCall.from = "Active"
  /\ Len(lastCall.arg) > 0
  /\ Phase = "Active"
  /\ startCount = 1
  /\ startTime < now

\* C8: in phase Idle, processInput("") keeps the phase Idle, records no
\* startTimestamp, emits nothing and starts no timer, for every target text.
C8_EmptyInputStaysIdle ==
  [][(Phase = "Idle" /\ lastCall'.op = "processInput" /\ lastCall'.arg = <<>>)
       => /\ Phase' = "Idle"
          /\ startTime' = Null
          /\ endTime' = Null
          /\ emitted' = <<>>
          /\ timers' = timers
          /\ updateInterval' = Null]_vars

C8_Witness ==
  /\ lastCall = [op |-> "processInput", arg |-> <<>>, from |-> "Idle"]
  /\ targetText = <<>>
  /\ Phase = "Idle"

\* C9: after setTargetText(text), from any phase, the phase is Idle, the
\* input buffer is empty, both timestamps are cleared and targetText = text.
C9_SetTargetTextResets ==
  lastCall.op = "setTargetText"
    => /\ Phase = "Idle"
       /\ userInput = <<>>
       /\ startTime = Null
       /\ endTime = Null
       /\ targetText = lastCall.arg

C9_Witness ==
  /\ lastCall.op = "setTargetText"
  /\ lastCall.from = "Completed"
  /\ Len(targetText) > 0

\* C10: Completed is terminal: processInput, timer ticks and the passing of
\* time keep the phase Completed and both timestamps, and emit no 'start';
\* the phase leaves Completed only by setTargetText or reset, to Idle.
C10_CompletedTerminal ==
  [][Phase = "Completed"
       => /\ lastCall'.op \in {"processInput", "tick", "clock"}
             => /\ Phase' = "Completed"
                /\ startTime' = startTime
                /\ endTime' = endTime
                /\ ~Emitted("start")'
                /\ startCount' = startCount
          /\ Phase' # "Completed"
             => (lastCall'.op \in {"reset", "setTargetText"} /\ Phase' = "Idle")]_vars

C10_Witness ==
  /\ lastCall.op = "processInput"
  /\ lastCall.from = "Completed"
  /\ Len(lastCall.arg) > 0
  /\ Len(lastCall.arg) # Len(targetText)
  /\ Phase = "Completed"

\* -------------------------------------------- selector and store: properties

\* getRandom(d) returned a passage in this step
Served(d) ==
  /\ pendingRandom'[d] < pendingRandom[d]
  /\ lastResult'.passage # NoPassage

Ids(passages) == {p.id : p \in passages}

\* C5: with a set of n > 1 passages, getRandom returns an id of the used set
\* only when every id of the set is in it; so the passages returned since the
\* used set was last empty are all different, and the n-th of them completes
\* the set.
C5_NoRepeatBeforeAllServed ==
  [][\A d \in Difficulties :
       (Served(d) /\ Cardinality(db[d]) > 1)
         => /\ lastResult'.passage.id \in usedPassages[d]
                 => Ids(db[d]) \subseteq usedPassages[d]
            /\ draws'[d] = Cardinality(usedPassages'[d])
            /\ usedPassages'[d] \subseteq Ids(db[d])
            /\ draws'[d] = Cardinality(db[d]) => usedPassages'[d] = Ids(db[d])]_vars

C5_Witness ==
  /\ lastResult.d = "beginner"
  /\ lastResult.passage \in db["beginner"]
  /\ Cardinality(db["beginner"]) = MaxPassages
  /\ draws["beginner"] = MaxPassages
  /\ usedPassages["beginner"] = Ids(db["beginner"])

\* C6: a getPassages(d) made while or after storePassages(d, P) runs returns
\* the complete set stored before that call or the complete set P.
C6_ReadsCompleteSet ==
  lastRead.d = storeCall.d
    => lastRead.passages \in {storeCall.prev, storeCall.new}

C6_Witness ==
  /\ lastRead.d = storeCall.d
  /\ storeCall.pc = "done"
  /\ storeCall.prev # {}
  /\ storeCall.new # {}
  /\ storeCall.prev # storeCall.new
  /\ lastRead.passages = storeCall.new

\* C11: an 'update' event is dispatched only by the interval callback, and
\* only when the callback runs in phase Active and leaves the phase Active: a
\* callback that runs before the first non-empty input, after the session
\* completed or after a reset dispatches nothing.
C11_UpdateOnlyWhileActive ==
  /\ Emitted("update") =>
       /\ lastCall.op = "tick"
       /\ lastCall.from = "Active"
       /\ Phase = "Active"
  /\ (lastCall.op = "tick" /\ lastCall.from # "Active") => emitted = <<>>

\* a timer that outlived its session fires in phase Idle and dispatches nothing
C11_Witness ==
  /\ lastCall.op = "tick"
  /\ lastCall.from = "Idle"
  /\ Phase = "Idle"
  /\ startTime = Null
  /\ timers # {}
  /\ emitted = <<>>

\* the positions below both lengths at which the buffer differs from the target
Mismatches(input, target) ==
  {i \in 1..Min(Len(input), Len(target)) : input[i] # target[i]}

\* C12: the errors value of every 'update' and 'complete' event is the number
\* of positions below min(len(buffer), len(targetText)) at which the buffer
\* differs from the target; characters typed past the end of the target are
\* not counted.
C12_ErrorsAreMismatches ==
  metrics.kind # "none" =>
    /\ metrics.errors = Cardinality(Mismatches(userInput, targetText))
    /\ metrics.errors <= Len(targetText)

\* an 'update' for a buffer longer than its target, with an error in it
C12_Witness ==
  /\ Emitted("update")
  /\ metrics.kind = "live"
  /\ Len(userInput) > Len(targetText)
  /\ metrics.errors = 1
  /\ Len(targetText) = 2

\* the call processInput("cot") made in phase Idle with target "cat"
CotOnIdleCat ==
  /\ lastCall.op = "processInput"
  /\ lastCall.arg = <<"c", "o", "t">>
  /\ lastCall.from = "Idle"
  /\ targetText = <<"c", "a", "t">>

\* C13: with target "cat", processInput("cot") on an Idle engine leaves the
\* phase Completed and dispatches 'complete' with errors 1 and accuracy 66.7
\* (667 tenths); the live rounding of the same buffer's accuracy is 67.
C13_CotExample ==
  CotOnIdleCat =>
    /\ Phase = "Completed"
    /\ emitted = <<"start", "complete">>
    /\ metrics.kind = "final"
    /\ metrics.errors = 1
    /\ metrics.accuracy = 667
    /\ metrics.totalCharacters = 3
    /\ metrics.targetLength = 3
    /\ CalculateMetrics(userInput, targetText, startTime, now).errors = 1
    /\ CalculateMetrics(userInput, targetText, startTime, now).accuracy = 67

C13_Witness ==
  /\ CotOnIdleCat
  /\ Phase = "Completed"
  /\ metrics.kind = "final"
  /\ metrics.accuracy = 667

\* a getRandom(d) call returns without a repository failure
Returns(d) == pendingRandom'[d] < pendingRandom[d] /\ ~lastResult'.failed

\* C14: getRandom(difficulty) returns null when the repository holds no
\* passage of that difficulty, and a passage it returns is in the repository's
\* set of that difficulty and in the set of no other difficulty.
C14_NullOrOwnTier ==
  [][\A d \in Difficulties :
       Returns(d) =>
         /\ lastResult'.d = d
         /\ db[d] = {} => lastResult'.passage = NoPassage
         /\ lastResult'.passage # NoPassage =>
              /\ lastResult'.passage \in db[d]
              /\ \A e \in Difficulties \ {d} : lastResult'.passage \notin db[e]]_vars

\* getRandom returned null for an empty difficulty while another difficulty
\* has passages
C14_Witness ==
  /\ lastResult.d = "expert"
  /\ ~lastResult.failed
  /\ db["expert"] = {}
  /\ db["beginner"] # {}
  /\ lastResult.passage = NoPassage

Exhausted(d) == db[d] # {} /\ Ids(db[d]) \subseteq usedPassages[d]

\* C16: when getRandom(difficulty) finds every id of the non-empty set in the
\* used set, it clears the used set before the draw: every passage of the
\* full set can be the one served, and after the call the used set holds
\* exactly the id served.
C16_ExhaustedClears ==
  [][\A d \in Difficulties :
       (Returns(d) /\ Exhausted(d)) =>
         /\ Drawable(CandidatePassages(GetAll(d), usedPassages[d])) = db[d]
         /\ lastResult'.cleared
         /\ lastResult'.passage \in db[d]
         /\ usedPassages'[d] = {lastResult'.passage.id}]_vars

\* a passage served from a set of several passages right after the used set
\* was found exhausted, the passage being the one served just before
C16_Witness ==
  /\ lastResult.d = "beginner"
  /\ Cardinality(db["beginner"]) = MaxPassages
  /\ lastResult.cleared
  /\ draws["beginner"] = 1
  /\ usedPassages["beginner"] = {lastResult.passage.id}
  /\ lastResult.passage = Passage("beginner", 0)

\* the passages the next getRandom(d) of a caller can return
ServableTo(caller, d) ==
  Drawable(CandidatePassages(GetAll(d), SelectorOf(caller)[d]))

\* C17: used-id tracking belongs to the caller's selector: a draw made by one
\* caller changes what at most that caller will be served next, and leaves
\* what every other caller will be served for the difficulty as it was.
C17_DrawsDoNotInterfere ==
  [][\A d \in Difficulties :
       Returns(d) =>
         Cardinality({caller \in Callers :
                        ServableTo(caller, d)' # ServableTo(caller, d)}) <= 1]_vars

\* C18: a getRandom(difficulty) whose repository read fails returns null and
\* leaves the used set of every difficulty as it was; a call whose read is
\* still outstanding (or is never answered) has changed no used set and has
\* returned nothing.
C18_FailedReadChangesNothing ==
  [][\A d \in Difficulties :
       /\ (pendingRandom'[d] < pendingRandom[d] /\ lastResult'.failed) =>
            /\ lastResult'.passage = NoPassage
            /\ usedPassages' = usedPassages
       /\ pendingRandom'[d] > pendingRandom[d] =>
            /\ usedPassages' = usedPassages
            /\ lastResult' = lastResult]_vars

\* a read failed while some passages of the difficulty were marked used
C18_Witness ==
  /\ lastResult.failed
  /\ lastResult.d = "beginner"
  /\ lastResult.passage = NoPassage
  /\ usedPassages["beginner"] # {}
  /\ usedPassages["beginner"] # Ids(db["beginner"])

\* C19: every passage that processBook stores for a book has a length within
\* the passageLength range of the book's configuration, and that length is
\* the number of characters of the stored text
C19_StoredLengthInRange ==
  \A d \in Difficulties : \A p \in db[d] :
    /\ d = bookCall.difficulty
    /\ bookCall.passageLength[1] <= p.length
    /\ p.length <= bookCall.passageLength[2]
    /\ p.length = Len(p.text)

\* a book is stored of which one candidate was too long after cleaning
C19_Witness ==
  /\ bookCall.pc = "returned"
  /\ db[bookCall.difficulty] # {}
  /\ \E k \in 1..Len(bookCall.examined) : bookCall.examined[k].fate = "length"

\* C20: every passage that processBook stores for beginner or intermediate
\* has a text that is not empty and holds only letters, digits, white space,
\* periods and commas
C20_StoredCharacterSet ==
  \A d \in {"beginner", "intermediate"} : \A p \in db[d] :
    /\ Len(p.text) > 0
    /\ \A i \in 1..Len(p.text) :
         p.text[i] \in Letter \cup Digit \cup WhiteSpace \cup {".", ","}

\* a passage is stored for beginner or intermediate out of a raw text of one
\* sentence that holds other characters
C20_Witness ==
  /\ bookCall.pc = "returned"
  /\ bookCall.difficulty \in {"beginner", "intermediate"}
  /\ db[bookCall.difficulty] # {}
  /\ Len(Paragraphs(bookCall.rawText)) = 1
  /\ Len(Sentences(Trim(bookCall.rawText))) = 1
  /\ \E i \in 1..Len(Sentences(Trim(bookCall.rawText))[1]) :
       ~AllowedChar(Sentences(Trim(bookCall.rawText))[1][i])

\* the first 50 characters of a text
First50(text) == SubSeq(text, 1, Min(50, Len(text)))

\* C21: the passages of one processBook batch have fingerprints that differ
\* from each other, the fingerprint of a passage is the lowercased first 50
\* characters of its text with white space collapsed, and of two candidates
\* with the same first 50 characters at most one is accepted
C21_FingerprintsDiffer ==
  /\ \A i, j \in 1..Len(bookCall.result) :
       /\ bookCall.result[i].fingerprint
            = CreateFingerprint(bookCall.result[i].text)
       /\ i # j => bookCall.result[i].fingerprint # bookCall.result[j].fingerprint
  /\ \A d \in Difficulties : \A p, q \in db[d] :
       p # q => p.fingerprint # q.fingerprint
  /\ \A i, j \in 1..Len(bookCall.examined) :
       (/\ i # j
        /\ First50(bookCall.examined[i].candidate)
             = First50(bookCall.examined[j].candidate))
         => ~(/\ bookCall.examined[i].fate = "accepted"
              /\ bookCall.examined[j].fate = "accepted")

\* a book is stored of which one candidate was accepted and a later, longer
\* candidate with the same first 50 characters was given up for its
\* fingerprint
C21_Witness ==
  /\ bookCall.pc = "returned"
  /\ \E i, j \in 1..Len(bookCall.examined) :
       /\ i < j
       /\ bookCall.examined[i].fate = "accepted"
       /\ bookCall.examined[j].fate = "fingerprint"
       /\ Len(bookCall.examined[i].candidate) >= 50
       /\ Len(bookCall.examined[j].candidate) > Len(bookCall.examined[i].candidate)
       /\ First50(bookCall.examined[i].candidate)
            = First50(bookCall.examined[j].candidate)
  /\ \E p \in db[bookCall.difficulty] : Len(p.text) >= 50

\* C22: every candidate that cleanPassageText hands back for beginner or
\* intermediate ends with a period
C22_CleanedEndsWithPeriod ==
  bookCall.difficulty \in {"beginner", "intermediate"} =>
    \A k \in 1..Len(bookCall.examined) :
      bookCall.examined[k].candidate[Len(bookCall.examined[k].candidate)] = "."

\* the fields of a passage
PassageFields ==
  {"id", "text", "difficulty", "grade", "ease", "length", "wordCount",
   "fingerprint"}

\* C23: every passage that processBook stores has exactly the fields id,
\* text, difficulty, grade, ease, length, wordCount and fingerprint, and its
\* difficulty is the difficulty of the book
C23_StoredFields ==
  \A d \in Difficulties : \A p \in db[d] :
    /\ DOMAIN p = PassageFields
    /\ p.difficulty = d

\* the number of candidates accepted among the first k examined
AcceptedUpTo(k) ==
  Cardinality({j \in 1..k : bookCall.examined[j].fate = "accepted"})

\* C24: a processBook batch never stores more passages than the cap, and once
\* as many passages as the cap are accepted no further candidate and no
\* further paragraph is examined
C24_CapStopsBatch ==
  /\ Len(bookCall.result) <= bookCall.cap
  /\ \A d \in Difficulties : Cardinality(db[d]) <= bookCall.cap
  /\ \A k \in 1..Len(bookCall.examined) :
       AcceptedUpTo(k) >= bookCall.cap =>
         /\ k = Len(bookCall.examined)
         /\ bookCall.started = bookCall.examined[k].paragraph

\* a book is stored whose batch reached the cap while its paragraph had more
\* candidates and its text had more paragraphs
C24_Witness ==
  /\ bookCall.pc = "returned"
  /\ AcceptedUpTo(Len(bookCall.examined)) = bookCall.cap
  /\ Cardinality(db[bookCall.difficulty]) = bookCall.cap
  /\ bookCall.started < Len(Paragraphs(bookCall.rawText))
  /\ Cardinality({k \in 1..Len(bookCall.examined) :
                    bookCall.examined[k].paragraph = bookCall.started})
       < Len(GenerateCandidatePassages(Paragraphs(bookCall.rawText),
               bookCall.started, bookCall.passageLength[1],
               bookCall.passageLength[2], bookCall.difficulty))

\* C25: every passage that processBook stores has a grade within 1.5 of the
\* book's targetGrade, and that grade is the grade analyze gives for the
\* stored text (grades in tenths)
C25_StoredGradeNearTarget ==
  \A d \in Difficulties : \A p \in db[d] :
    /\ p.grade = Analyze(p.text).grade
    /\ p.grade - bookCall.targetGrade <= 15
    /\ bookCall.targetGrade - p.grade <= 15

\* a book is stored of which a passage has a grade other than the target and
\* a candidate was given up for its grade
C25_Witness ==
  /\ bookCall.pc = "returned"
  /\ \E p \in db[bookCall.difficulty] :
       p.grade > 0 /\ p.grade # bookCall.targetGrade
  /\ \E k \in 1..Len(bookCall.examined) : bookCall.examined[k].fate = "grade"

\* the quote characters
Quotes == {"\"", "'"}

\* C26: every passage stored for beginner holds no quote character, has at
\* most 120 characters per period (the periods counted as at least 1), at
\* most 8% capital letters and at most 5% digits
C26_BeginnerSuitable ==
  \A p \in db["beginner"] :
    LET periods == Cardinality({i \in 1..Len(p.text) : p.text[i] = "."})
        capitals == Cardinality({i \in 1..Len(p.text) :
                                   p.text[i] \in Range(UpperCase)})
        digits == Cardinality({i \in 1..Len(p.text) : p.text[i] \in Digit})
    IN /\ \A i \in 1..Len(p.text) : p.text[i] \notin Quotes
       /\ Len(p.text) <= 120 * (IF periods >= 1 THEN periods ELSE 1)
       /\ 100 * capitals <= 8 * Len(p.text)
       /\ 100 * digits <= 5 * Len(p.text)

\* a beginner book is stored whose raw text holds a quote, and of which a
\* candidate of the right grade was given up as unsuitable
C26_Witness ==
  /\ bookCall.pc = "returned"
  /\ bookCall.difficulty = "beginner"
  /\ db["beginner"] # {}
  /\ \E i \in 1..Len(bookCall.rawText) : bookCall.rawText[i] \in Quotes
  /\ \E k \in 1..Len(bookCall.examined) :
       bookCall.examined[k].fate = "suitability"

\* the candidates of every paragraph of the book in hand, in the order in
\* which processBook meets them
RECURSIVE CandidatesOfBook(_, _)
CandidatesOfBook(paragraphs, i) ==
  IF i > Len(paragraphs) THEN <<>>
  ELSE GenerateCandidatePassages(paragraphs, i, bookCall.passageLength[1],
                                 bookCall.passageLength[2],
                                 bookCall.difficulty)
       \o CandidatesOfBook(paragraphs, i + 1)

\* the candidate passes the length, character-set, grade and suitability
\* checks of the book in hand
PassesChecks(candidate) ==
  /\ Len(candidate) >= bookCall.passageLength[1]
  /\ Len(candidate) <= bookCall.passageLength[2]
  /\ IsCharacterSetValid(candidate, bookCall.difficulty)
  /\ GradeClose(Analyze(candidate).grade, bookCall.targetGrade)
  /\ IsPassageSuitableForDifficulty(candidate, bookCall.difficulty)

\* C27: a rejected candidate neither ends the batch nor takes a fingerprint:
\* below the cap, every candidate of the book that passes the checks and
\* whose fingerprint is that of no earlier candidate passing them is stored
C27_RejectedDoesNotAbort ==
  (bookCall.pc = "returned" /\ Len(bookCall.result) < bookCall.cap) =>
    LET all == CandidatesOfBook(Paragraphs(bookCall.rawText), 1)
    IN \A k \in 1..Len(all) :
         (/\ PassesChecks(all[k])
          /\ \A j \in 1..(k - 1) :
               PassesChecks(all[j]) =>
                 CreateFingerprint(all[j]) # CreateFingerprint(all[k]))
         => \E p \in db[bookCall.difficulty] : p.text = all[k]

\* a candidate was rejected for its length, characters, grade or suitability,
\* and a later candidate with the same fingerprint is stored
C27_Witness ==
  /\ bookCall.pc = "returned"
  /\ \E k \in 1..Len(bookCall.examined) : \E j \in 1..(k - 1) :
       /\ bookCall.examined[j].fate
            \in {"length", "characters", "grade", "suitability"}
       /\ bookCall.examined[k].fate = "accepted"
       /\ CreateFingerprint(bookCall.examined[j].candidate)
            = CreateFingerprint(bookCall.examined[k].candidate)
       /\ \E p \in db[bookCall.difficulty] :
            p.text = bookCall.examined[k].candidate

\* the text p stands at s[i], letter case kept
TextAt(s, i, p) ==
  i + Len(p) - 1 <= Len(s) /\ SubSeq(s, i, i + Len(p) - 1) = p

\* the chapter heading and the start of the body of the example
HeadingText == <<"C", "H", "A", "P", "T", "E", "R", " ", "I">>

BodyStart ==
  <<"R", "o", "b", "i", "n", "s", "o", "n", " ", "C", "r", "u", "s", "o", "e",
    " ", "w", "a", "s", " ", "b", "o", "r", "n">>

\* the first paragraph of the text in hand is the chapter heading and the
\* second one begins as the body of the example does
HeadingFirst ==
  LET paragraphs == Paragraphs(bookCall.rawText)
  IN /\ Len(paragraphs) >= 2
     /\ Trim(paragraphs[1]) = HeadingText
     /\ TextAt(Trim(paragraphs[2]), 1, BodyStart \o <<" ", "i", "n", " ", "1",
                                                    "6", "3", "2">>)

\* C28: when the first paragraph of the raw text is the heading CHAPTER I and
\* the body paragraph after it begins with Robinson Crusoe was born in 1632,
\* a candidate begins at Robinson Crusoe was born and no candidate holds the
\* heading
C28_HeadingExcluded ==
  (bookCall.pc = "returned" /\ HeadingFirst) =>
    /\ \E k \in 1..Len(bookCall.examined) :
         TextAt(bookCall.examined[k].candidate, 1, BodyStart)
    /\ \A k \in 1..Len(bookCall.examined) :
         \A i \in 1..Len(bookCall.examined[k].candidate) :
           ~TextAt(bookCall.examined[k].candidate, i, HeadingText)

\* the sum over the words of cleanText of at least 1 syllable each
FlooredSyllableSum(cleanText) ==
  Cardinality(UNION {{<<i, k>> :
                        k \in 1..Max(1, CountSyllables(WordAt(cleanText, i)))} :
                       i \in WordStarts(cleanText)})

\* C29: in analyze every word, also one without a letter, adds at least 1
\* syllable to the total, and the total is at least the number of words
C29_SyllableFloorPerWord ==
  \A k \in 1..Len(bookCall.examined) :
    bookCall.examined[k].fate \in {"grade", "suitability", "accepted"} =>
      LET cleanText == AnalysisText(bookCall.examined[k].candidate)
          wordCount == Max(Cardinality(WordStarts(cleanText)), 1)
          syllableCount == Max(SyllableSum(cleanText), wordCount)
      IN /\ \A i \in WordStarts(cleanText) :
              CountSyllables(WordAt(cleanText, i)) >= 1
         /\ syllableCount >= wordCount
         /\ syllableCount = Max(FlooredSyllableSum(cleanText), wordCount)

\* C30: analyze returns grade 0 and ease 0 for the empty string and for every
\* text of white space only
C30_BlankTextIsZero ==
  (/\ analyzeCall.called
   /\ \A i \in 1..Len(analyzeCall.text) : analyzeCall.text[i] \in WhiteSpace)
  => analyzeCall.result = [grade |-> 0, ease |-> 0]

\* analyze was called with a text of white space that holds a line break,
\* and returned
C30_Witness ==
  /\ analyzeCall.called
  /\ Len(analyzeCall.text) > 1
  /\ \A i \in 1..Len(analyzeCall.text) : analyzeCall.text[i] \in WhiteSpace
  /\ \E i \in 1..Len(analyzeCall.text) : analyzeCall.text[i] = "\n"
  /\ analyzeCall.result = [grade |-> 0, ease |-> 0]

\* C31: the stores start empty; the committed stores change only when a
\* storePassages(d, P) call completes, which leaves exactly P in the store of d
\* and the stores of the other difficulties as they were; and getPassages(d)
\* returns the committed store of d
C31_StoreReplacesWholesale ==
  /\ \A d \in Difficulties : db[d] = {}
  /\ [][/\ db' # db =>
             /\ storeCall.pc = "put" /\ storeCall'.pc = "done"
             /\ db'[storeCall.d] = storeCall.new
             /\ \A d \in Difficulties \ {storeCall.d} : db'[d] = db[d]
        /\ (storeCall.pc = "put" /\ storeCall'.pc = "done") =>
             db'[storeCall.d] = storeCall.new
        /\ (lastRead' # lastRead /\ lastRead'.d # "none") =>
             lastRead'.passages = db[lastRead'.d]]_vars

\* a storePassages call replaced a set by another one, getPassages returned
\* the new set, the store of a second difficulty holds an earlier set and the
\* store of a third one was never written
C31_Witness ==
  /\ storeCall.pc = "done"
  /\ storeCall.prev # {}
  /\ storeCall.new # {}
  /\ storeCall.prev \cap storeCall.new = {}
  /\ lastRead = [d |-> storeCall.d, passages |-> storeCall.new]
  /\ \E d \in Difficulties \ {storeCall.d} : db[d] # {}
  /\ \E d \in Difficulties \ {storeCall.d} : db[d] = {}

\* C32: a fetch of a raw text that fails is never propagated: loadRawBook
\* returns the text of the cache, stale or not, or a generated text, so no
\* pass of loadAllBooks ends with loadRawBook throwing; the remaining books
\* are loaded and start-up continues
C32_FetchFailureRecovered ==
  /\ \A i \in 1..Len(Books) : loadAll.by[i] # "error"
  /\ isInitialized => loadAll.i > Len(Books)

\* C33: getPassage never fails its caller: no call is rejected, and a call
\* whose request met a network error, content that is not JSON, a status
\* that is not ok, success:false, a missing or empty passages array or a
\* malformed passage resolves with a fallback passage
C33_GetPassageNeverFails ==
  \A c \in CallIds :
    /\ calls[c].state # "rejected"
    /\ calls[c].outcome \in ApiOutcomes \ {"ok"} =>
         calls[c].state = "resolved" /\ calls[c].result.kind = "fallback"

\* C34: for each difficulty at most one fetchFromAPI started by getPassage
\* is in flight; the requestQueue holds an entry for a difficulty exactly
\* while that request is in flight, so the entry goes when the request
\* settles, failed or not; every call that waits awaits that one request
C34_OneRequestInFlight ==
  \A d \in Difficulties :
    /\ Cardinality({c \in fetches : calls[c].d = d}) <= 1
    /\ requestQueue[d] # 0 <=> \E c \in fetches : calls[c].d = d
    /\ requestQueue[d] # 0 => requestQueue[d] \in fetches
    /\ \A c \in CallIds :
         calls[c].state = "waiting" /\ calls[c].d = d =>
           calls[c].on = requestQueue[d]

\* a call joined the request of another call, the request failed, both calls
\* went on and the entry of the difficulty is gone
C34_Witness ==
  \E c \in CallIds : \E j \in CallIds \ {c} :
    /\ calls[c].by = "fetch" /\ calls[j].by = "joined" /\ calls[j].on = c
    /\ calls[c].state = "resolved" /\ calls[j].state = "resolved"
    /\ calls[c].outcome = "notOk"
    /\ requestQueue[calls[c].d] = 0 /\ fetches = {}

\* C39: a passage that getPassage returned is not in the cache afterwards,
\* and two calls that return the same object awaited the same request
C39_ReturnedPassageNotCached ==
  /\ \A c \in CallIds : \A key \in DOMAIN cache : \A i \in 1..Len(cache[key]) :
       calls[c].state = "resolved" => cache[key][i].obj # calls[c].result.obj
  /\ \A c \in CallIds : \A j \in CallIds \ {c} :
       (/\ calls[c].state = "resolved" /\ calls[j].state = "resolved"
        /\ calls[c].result.obj = calls[j].result.obj)
         => calls[c].on # 0 /\ calls[c].on = calls[j].on

\* C38: for a difficulty whose set has more than one passage, a getRandom
\* that returns a passage right after another getRandom of the difficulty
\* returned one, with no reset of the used ids in between, returns another
\* id, also when it finds the used set exhausted and clears it
C38_ConsecutiveDrawsDiffer ==
  [][\A d \in Difficulties :
       (/\ lastResult.d = d /\ lastResult.passage # NoPassage
        /\ draws[d] >= 1
        /\ Cardinality(db[d]) > 1
        /\ pendingRandom'[d] < pendingRandom[d]
        /\ lastResult'.passage # NoPassage)
         => lastResult'.passage.id # lastResult.passage.id]_vars

\* C36: when processInput returns with the phase Active, the length of the
\* buffer differs from the length of the target text; a buffer longer than
\* the target completes nothing, and an Active session stays Active through
\* every processInput whose buffer has not exactly the length of the target
C36_ActiveUntilExactLength ==
  [][lastCall'.op = "processInput" =>
       /\ Phase' = "Active" => Len(userInput') # Len(targetText')
       /\ Len(userInput') > Len(targetText') =>
            /\ "complete" \notin Range(emitted')
            /\ endTime' = endTime
       /\ (Phase = "Active" /\ Len(userInput') # Len(targetText')) =>
            Phase' = "Active"
       /\ (Phase = "Active" /\ Len(userInput') = Len(targetText')) =>
            Phase' = "Completed"]_vars

\* an Active session was given a buffer longer than its target, which is not
\* empty, and is Active still
C36_Witness ==
  /\ lastCall.op = "processInput" /\ lastCall.from = "Active"
  /\ Phase = "Active"
  /\ Len(targetText) > 0
  /\ Len(userInput) > Len(targetText)

\* C40: the live and the final metrics of every buffer, target text and
\* elapsed time have 0 <= errors <= min(len(buffer), len(targetText)),
\* 0 <= accuracy <= 100 and 0 <= netWPM <= grossWPM, and both WPM values are
\* 0 when no time has elapsed.  The final values are held in tenths.
C40_MetricsInRange ==
  LET live == CalculateMetrics(userInput, targetText, startTime, now)
      final == CalculateFinalMetrics(userInput, targetText, startTime, endTime)
      InRange(m, full) ==
        /\ 0 <= m.errors /\ m.errors <= Min(Len(userInput), Len(targetText))
        /\ 0 <= m.accuracy /\ m.accuracy <= full
        /\ 0 <= m.netWPM /\ m.netWPM <= m.grossWPM
  IN /\ InRange(live, 100)
     /\ InRange(final, 1000)
     /\ (startTime = Null \/ now = startTime) => live.grossWPM = 0 /\ live.netWPM = 0
     /\ endTime = startTime => final.grossWPM = 0 /\ final.netWPM = 0
     /\ metrics.kind = "live" => metrics = live
     /\ metrics.kind = "final" => metrics = final

\* a session was completed in the millisecond it started in, with an error
\* in the buffer: the final metrics were emitted and both WPM values are 0
C40_Witness ==
  /\ metrics.kind = "final"
  /\ startTime # Null /\ endTime = startTime
  /\ metrics.errors > 0
  /\ metrics.grossWPM = 0 /\ metrics.netWPM = 0

\* C37: once no passage fetch is in flight, the passage held as current was
\* drawn for the selected difficulty and its text is the engine's target
C37_CurrentPassageOfSelected ==
  (/\ \A d \in Difficulties : pendingRandom[d] = 0
   /\ currentPassage # NoPassage)
    => /\ currentPassage.id[1] = currentDifficulty
       /\ targetText = PassageText(currentPassage)

\* C35: the stored best of a difficulty changes only when a session completes
\* while that difficulty is selected, with a netWPM above 0 and above the
\* stored one, which it then holds; so a stored best is never lost or lowered
C35_BestOnlyImproves ==
  [][\A d \in Difficulties :
       /\ best'[d] # best[d] =>
            /\ \E i \in DOMAIN emitted' : emitted'[i] = "complete"
            /\ lastCall'.op = "processInput"
            /\ currentDifficulty = d
            /\ metrics'.netWPM > 0
            /\ (best[d].stored => metrics'.netWPM > best[d].json.netWPM)
            /\ best'[d].stored
            /\ best'[d].json.netWPM = metrics'.netWPM
       /\ best[d].stored =>
            /\ best'[d].stored
            /\ best'[d].json.netWPM >= best[d].json.netWPM]_vars

\* a session was just completed with a netWPM above 0 that is below the
\* stored best of its difficulty, at a later time than that best was stored
C35_Witness ==
  /\ \E i \in DOMAIN emitted : emitted[i] = "complete"
  /\ currentDifficulty # NoDifficulty
  /\ metrics.netWPM > 0
  /\ best[currentDifficulty].stored
  /\ best[currentDifficulty].json.netWPM > metrics.netWPM
  /\ best[currentDifficulty].json.date < now

\* a fresh database holds no passage
InitEmptyDb == db = [d \in Difficulties |-> {}]

Init ==
  /\ InitEngine /\ InitSelector /\ InitStore /\ InitBook /\ InitAnalyzer
  /\ InitEmptyDb /\ InitLoader /\ InitRemote /\ InitAppState

SpecEngine == Init /\ [][NextEngine]_vars

SpecExample == Init /\ [][NextExample]_vars

InitProcessed ==
  /\ InitEngine /\ InitSelector /\ InitStore /\ InitBook /\ InitAnalyzer
  /\ InitProcessedDb /\ InitLoader /\ InitRemote /\ InitAppState

SpecSelector == InitProcessed /\ [][NextSelector]_vars

SpecById == InitProcessed /\ [][NextById]_vars

SpecStore == Init /\ [][NextStore]_vars

SpecProcess == Init /\ [][NextProcess]_vars

SpecCap == Init /\ [][NextCap]_vars

SpecLoaded == Init /\ [][NextLoaded]_vars

InitAnalyze ==
  /\ InitEngine /\ InitSelector /\ InitStore /\ InitBook /\ InitAnalyzeText
  /\ InitEmptyDb /\ InitLoader /\ InitRemote /\ InitAppState

SpecAnalyze == InitAnalyze /\ [][NextAnalyze]_vars

\* the page is opened: a store of passages is empty or holds what an earlier
\* visit left
InitBooks ==
  \* the page is opened: the rawBooks store holds what earlier visits left
  LET InitRawBooks ==
        /\ rawBooks \in [Difficulties ->
                           {NoRawBook}
                             \cup {[present |-> TRUE, content |-> CleanBookText(file),
                                     timestamp |-> 0] : file \in BookFiles}]
        /\ loadAll = NoLoadAll
        /\ isInitialized = FALSE
  IN /\ InitEngine /\ InitSelector /\ InitStore /\ InitBook /\ InitAnalyzer
     /\ InitRawBooks /\ InitRemote /\ InitAppState
     /\ \E filled \in SUBSET Difficulties :
          db = [d \in Difficulties |-> IF d \in filled THEN {Passage(d, 0)} ELSE {}]

SpecBooks == InitBooks /\ [][NextBooks]_vars

SpecRemote == Init /\ [][NextRemote]_vars

\* the books were processed: the store of every difficulty holds a passage
InitMain ==
  /\ InitEngine /\ InitSelector /\ InitStore /\ InitBook /\ InitAnalyzer
  /\ InitLoader /\ InitRemote /\ InitAppState
  /\ db = [d \in Difficulties |-> {Passage(d, 0)}]

SpecMain == InitMain /\ [][NextMain]_vars

====
